---- MODULE Spec2Model ----
(***************************************************************************)
(* Resilience layer (CircuitBreaker, RetryManager and their composition)   *)
(* and token vault (SecurityEnhancement) of shora-ai-payment-sdk.          *)
(*                                                                         *)
(* Time is the value Date.now() returns.  A handler runs to completion on  *)
(* the event loop, so every Date.now() read inside one handler sees the    *)
(* same value; the clock advances between handlers (action Tick).          *)
(***************************************************************************)
EXTENDS Integers, Sequences, FiniteSets, TLC

(***************************************************************************)
(* Bounds of the model.                                                    *)
(***************************************************************************)
MaxInFlight == 2      \* execute() calls that can be awaiting at once
MaxRequests == 6      \* execute() calls made on one breaker
MaxTime     == 2      \* last clock value at which the operation may fail
MaxSessions == 1      \* RetryManager.execute calls made one after another
RandSteps   == 2      \* Math.random() returns r / RandSteps, r < RandSteps
MaxStrLen   == 2      \* longest token string handed to encryptToken
MaxCalls    == 3      \* logAudit calls made by the callers of the vaults
MaxCreates  == 3      \* createPaymentSession calls made
MaxLog      == 1      \* audit entries the two vaults may hold before an
                      \* operation that logs
MaxChecks   == 3      \* checkRateLimit calls made

(***************************************************************************)
(* Program constants.                                                      *)
(***************************************************************************)
DefaultFailureThreshold == 5
DefaultResetTimeout     == 30000
HalfOpenSuccesses       == 3
DefaultMaxRetries        == 3
DefaultBaseDelay         == 1000
DefaultMaxDelay          == 30000
DefaultBackoffMultiplier == 2
DefaultJitterPct         == 10     \* options.jitter || 0.1, in percent
DefaultPbkdf2Iterations  == 100000 \* { pbkdf2Iterations: 100000, ...config }
TokenLifetime            == 1800000 \* 30 * 60 * 1000 ms
CacheTtl                 == 300000 \* @cached(300000)
DefaultWindowMs          == 900000 \* windowMs: 15 * 60 * 1000
DefaultMax               == 100    \* max: 100

NULL == -1            \* JavaScript null (never a clock value)

Callers == 1 .. MaxInFlight

\* options.failureThreshold / options.resetTimeout as handed to the
\* constructor; 0 stands for every falsy value (0, undefined, null).
OptFailureThresholds == {0, 1, 2}
OptResetTimeouts     == {0, 1, 2}

\* Options handed to the RetryManager constructor (0: falsy, the default
\* applies): maxRetries and <<baseDelay, maxDelay, jitter in percent,
\* backoffMultiplier>>.
OptMaxRetries == {0, 1, 2}
OptDelays     == {<<0, 0, 0, 0>>, <<1, 2, 100, 0>>, <<2, 20, 100, 3>>}

VARIABLES
  \* ---- CircuitBreaker fields
  failureThreshold, resetTimeout,
  state, failureCount, lastFailureTime, nextAttempt, successCount, metrics,
  \* ---- environment of the breaker
  now,        \* Date.now()
  pc,         \* per caller: "idle" or "running" (awaiting fn inside execute)
  opCalls,    \* how often the wrapped operation was invoked
  recovered,  \* the dependency has recovered: the operation no longer fails
  \* ---- history of the breaker
  lastEv,     \* the last breaker event and the fields it found
  consecFailures,  \* operation failures completed since the last success/reset
  hoRun,      \* successes completed in a row since HALF_OPEN was entered
  \* ---- RetryManager fields
  optMaxRetries,   \* options.maxRetries as configured
  maxRetries, baseDelay, maxDelay, backoffMultiplier, jitterPct,
  \* ---- one RetryManager.execute(fn) call
  wrapped,    \* fn is () => circuitBreaker.execute(op); otherwise fn is op
  rpc,        \* "idle", "calling", "sleeping", "returned" or "thrown"
  attempt,    \* the loop variable
  lastError,  \* the local lastError
  settled,    \* the value returned or the error thrown to the caller
  wakeAt,     \* end of the current sleep
  \* ---- history of the RetryManager.execute call
  fnLog,      \* one entry per invocation of fn
  sleeps,     \* sleeps started
  session,    \* RetryManager.execute calls started so far
  \* ---- SecurityEnhancement (JSON-envelope vault), per vault instance
  config,     \* the SecurityConfig
  auditLogs,  \* the in-memory audit log
  \* ---- what the callers of the vaults hold
  token,      \* the EncryptedToken last returned by encryptToken
  origin,     \* which vault produced it, from which arguments
  lastOp,     \* the last vault operation and what it returned
  previous,   \* the EncryptedToken returned before `token`
  \* ---- the remote audit sink (config.auditLogEndpoint)
  sink,       \* POSTs in flight, delivered, and failed with a warning
  \* ---- PaymentService.createPaymentSession and the cache of @cached
  decorated,  \* the method is the variant decorated with @cached(300000)
  cache,      \* MemoryCache.cache: the item stored under a key
  posts,      \* POSTs made to /v2/payments/sessions
  creates,    \* the createPaymentSession calls made, in order
  \* ---- ShoraSDK construction
  processEnv, \* process.env.SHORA_API_BASE_URL
  sdk,        \* the last `new ShoraSDK(config, httpClient)` and its outcome
  \* ---- SecurityManager
  rateLimitConfig,  \* this.rateLimitConfig
  checks,     \* the checkRateLimit calls made and their results, in order
  \* ---- history of the calls in flight on the breaker
  admittedIn, \* per caller: the state its running call was admitted in
  lastAdmission, \* the state the call that completed last was admitted in
  \* ---- SecurityEnhancement, per vault instance
  requestContext, \* this.requestContext
  \* ---- history of the token the callers hold
  validations,   \* validatePaymentToken calls made on it
  \* ---- history of the createPaymentSession calls
  madeOn      \* per call: the PaymentService instance it was made on

cbVars   == <<failureThreshold, resetTimeout, state, failureCount,
              lastFailureTime, nextAttempt, successCount, metrics>>
envVars  == <<now, pc, opCalls, recovered>>
histVars == <<lastEv, consecFailures, hoRun>>
rmVars   == <<optMaxRetries, maxRetries, baseDelay, maxDelay,
              backoffMultiplier, jitterPct>>
loopVars == <<wrapped, rpc, attempt, lastError, settled, wakeAt>>
logVars  == <<fnLog, sleeps, session>>
rtVars   == <<rmVars, loopVars, logVars>>
vaultVars == <<config, auditLogs, token, origin, lastOp, previous, sink>>
payVars  == <<decorated, cache, posts, creates>>
appVars  == <<processEnv, sdk, rateLimitConfig, checks>>
raceVars == <<admittedIn, lastAdmission>>
ctxVars  == <<requestContext, validations>>
auxVars  == <<raceVars, ctxVars, madeOn>>
vars     == <<cbVars, envVars, histVars, rtVars, vaultVars, payVars, appVars,
              auxVars>>

\* x || d of JavaScript, for numbers: 0 (and undefined) is falsy.
OrDefault(x, d) == IF x = 0 THEN d ELSE x

\* ToNumber for a relational comparison: null compares as 0.
ToNumber(x) == IF x = NULL THEN 0 ELSE x

\* new CircuitBreaker(options)
NewMetrics ==
  [totalRequests |-> 0, successfulRequests |-> 0, failedRequests |-> 0,
   circuitOpened |-> 0, circuitClosed |-> 0]

CircuitBreakerInit(optThreshold, optReset) ==
  /\ failureThreshold = OrDefault(optThreshold, DefaultFailureThreshold)
  /\ resetTimeout = OrDefault(optReset, DefaultResetTimeout)
  /\ state = "CLOSED"
  /\ failureCount = 0
  /\ lastFailureTime = NULL
  /\ nextAttempt = NULL
  /\ successCount = 0
  /\ metrics = NewMetrics

\* execute(), lines 40-43: the call is blocked while the circuit is open and
\* the cool-down has not elapsed.
BlockedEarly(st, t, na) == st = "OPEN" /\ t + 1 < ToNumber(na)
BlockedLate(st, t, na)  == st = "OPEN" /\ t <= ToNumber(na)
Blocked(st, t, na) == st = "OPEN" /\ t < ToNumber(na)

Event(kind, c) ==
  [kind |-> kind, at |-> now, pre |-> state,
   preNext |-> nextAttempt, preSucc |-> successCount, preCalls |-> opCalls]

executeCountsRejection(c) ==
  /\ pc[c] = "idle"
  /\ IF Blocked(state, now, nextAttempt)
       THEN /\ metrics' = [metrics EXCEPT !.totalRequests = @ + 1,
                                          !.failedRequests = @ + 1]
            /\ failureCount' = failureCount + 1
            /\ lastFailureTime' = now
            /\ nextAttempt' = now + resetTimeout
            /\ lastEv' = Event("reject", c)
            /\ UNCHANGED <<state, successCount, pc, opCalls, hoRun>>
       ELSE /\ metrics' = [metrics EXCEPT !.totalRequests = @ + 1]
            /\ IF state = "OPEN"
                 THEN /\ state' = "HALF_OPEN"
                      /\ successCount' = 0
                      /\ hoRun' = 0
                 ELSE UNCHANGED <<state, successCount, hoRun>>
            /\ opCalls' = opCalls + 1
            /\ pc' = [pc EXCEPT ![c] = "running"]
            /\ lastEv' = Event("admit", c)
            /\ UNCHANGED <<failureCount, lastFailureTime, nextAttempt>>
  /\ UNCHANGED <<failureThreshold, resetTimeout, now, recovered,
                 consecFailures>>

\* execute(fn): the synchronous part, up to `await fn(...args)`.
execute(c) ==
  /\ pc[c] = "idle"
  /\ metrics' = [metrics EXCEPT !.totalRequests = @ + 1]
  /\ IF Blocked(state, now, nextAttempt)
       THEN \* throw new Error('Circuit breaker is OPEN - request blocked')
            /\ lastEv' = Event("reject", c)
            /\ UNCHANGED <<state, successCount, pc, opCalls, hoRun>>
       ELSE /\ IF state = "OPEN"
                 THEN /\ state' = "HALF_OPEN"
                      /\ successCount' = 0
                      /\ hoRun' = 0
                 ELSE UNCHANGED <<state, successCount, hoRun>>
            /\ opCalls' = opCalls + 1          \* fn(...args)
            /\ pc' = [pc EXCEPT ![c] = "running"]
            /\ lastEv' = Event("admit", c)
  /\ UNCHANGED <<failureThreshold, resetTimeout, failureCount,
                 lastFailureTime, nextAttempt, now, recovered, consecFailures>>

\* onSuccess(), lines 67-71: enough successes in HALF_OPEN close the circuit.
ClosesEarly(sc) == sc >= HalfOpenSuccesses - 1
Closes(sc) == sc >= HalfOpenSuccesses

onSuccessKeepsCount ==
  /\ IF state = "HALF_OPEN"
       THEN IF Closes(successCount + 1)
              THEN /\ state' = "CLOSED"
                   /\ successCount' = 0
                   /\ metrics' = [metrics EXCEPT !.successfulRequests = @ + 1,
                                                 !.circuitClosed = @ + 1]
              ELSE /\ successCount' = successCount + 1
                   /\ metrics' = [metrics EXCEPT !.successfulRequests = @ + 1]
                   /\ UNCHANGED state
       ELSE /\ metrics' = [metrics EXCEPT !.successfulRequests = @ + 1]
            /\ UNCHANGED <<state, successCount>>
  /\ UNCHANGED <<failureCount, lastFailureTime, nextAttempt>>

\* onSuccess()
onSuccess ==
  /\ failureCount' = 0
  /\ IF state = "HALF_OPEN"
       THEN IF Closes(successCount + 1)
              THEN /\ state' = "CLOSED"
                   /\ successCount' = 0
                   /\ metrics' = [metrics EXCEPT !.successfulRequests = @ + 1,
                                                 !.circuitClosed = @ + 1]
              ELSE /\ successCount' = successCount + 1
                   /\ metrics' = [metrics EXCEPT !.successfulRequests = @ + 1]
                   /\ UNCHANGED state
       ELSE /\ metrics' = [metrics EXCEPT !.successfulRequests = @ + 1]
            /\ UNCHANGED <<state, successCount>>
  /\ UNCHANGED <<lastFailureTime, nextAttempt>>

\* onFailure(), line 83: the failure count has reached the threshold.
TripsLate(fc, th) == fc > th
Trips(fc, th) == fc >= th

\* onFailure()
onFailure ==
  /\ failureCount' = failureCount + 1
  /\ lastFailureTime' = now
  /\ IF Trips(failureCount + 1, failureThreshold)
       THEN /\ state' = "OPEN"
            /\ nextAttempt' = now + resetTimeout
            /\ metrics' = [metrics EXCEPT !.failedRequests = @ + 1,
                                          !.circuitOpened = @ + 1]
       ELSE /\ metrics' = [metrics EXCEPT !.failedRequests = @ + 1]
            /\ UNCHANGED <<state, nextAttempt>>
  /\ UNCHANGED successCount

\* execute(fn): fn resolved; `this.onSuccess(); return result`.
CompleteSuccess(c) ==
  /\ pc[c] = "running"
  /\ onSuccess
  /\ pc' = [pc EXCEPT ![c] = "idle"]
  /\ lastEv' = Event("success", c)
  /\ consecFailures' = 0
  /\ hoRun' = IF state = "HALF_OPEN" THEN hoRun + 1 ELSE hoRun
  /\ UNCHANGED <<failureThreshold, resetTimeout, now, opCalls, recovered>>

\* execute(fn): fn rejected; `this.onFailure(); throw error`.
CompleteFailure(c) ==
  /\ pc[c] = "running"
  /\ onFailure
  /\ pc' = [pc EXCEPT ![c] = "idle"]
  /\ lastEv' = Event("failure", c)
  /\ consecFailures' = consecFailures + 1
  /\ hoRun' = 0
  /\ UNCHANGED <<failureThreshold, resetTimeout, now, opCalls, recovered>>

resetKeepsCount ==
  /\ state' = "CLOSED"
  /\ lastFailureTime' = NULL
  /\ nextAttempt' = NULL
  /\ successCount' = 0
  /\ lastEv' = Event("reset", 0)
  /\ consecFailures' = 0
  /\ hoRun' = 0
  /\ UNCHANGED <<failureThreshold, resetTimeout, failureCount, metrics,
                 envVars>>

\* reset()
reset ==
  /\ state' = "CLOSED"
  /\ failureCount' = 0
  /\ lastFailureTime' = NULL
  /\ nextAttempt' = NULL
  /\ successCount' = 0
  /\ lastEv' = Event("reset", 0)
  /\ consecFailures' = 0
  /\ hoRun' = 0
  /\ UNCHANGED <<failureThreshold, resetTimeout, metrics, envVars>>

\* The clock advances to d: by one unit up to MaxTime, and past MaxTime only
\* to the last instant before, or the instant of, an open circuit's
\* nextAttempt.
Tick(d) ==
  /\ IF now < MaxTime THEN d = now + 1
                      ELSE /\ state = "OPEN" /\ now < nextAttempt
                           /\ d \in {nextAttempt - 1, nextAttempt} /\ d > now
  /\ now' = d
  /\ UNCHANGED <<cbVars, pc, opCalls, recovered, histVars>>

\* The dependency recovers; from here on the operation succeeds.
Recover ==
  /\ ~recovered
  /\ recovered' = TRUE
  /\ UNCHANGED <<cbVars, now, pc, opCalls, histVars, rtVars, vaultVars, payVars, appVars, auxVars>>

EnvInit ==
  /\ now = 0
  /\ pc = [c \in Callers |-> "idle"]
  /\ opCalls = 0
  /\ recovered = FALSE

HistInit ==
  /\ lastEv = [kind |-> "init", at |-> 0, pre |-> "CLOSED",
               preNext |-> NULL, preSucc |-> 0, preCalls |-> 0]
  /\ consecFailures = 0
  /\ hoRun = 0

\* `let lastError;` before any error was caught, and what a call that has
\* not ended has handed its caller.
NoError == [kind |-> "none", of |-> 0]

\* No RetryManager.execute call is made.
RetryUnused ==
  /\ optMaxRetries = 0 /\ maxRetries = DefaultMaxRetries
  /\ baseDelay = DefaultBaseDelay /\ maxDelay = DefaultMaxDelay
  /\ backoffMultiplier = DefaultBackoffMultiplier
  /\ jitterPct = DefaultJitterPct
  /\ wrapped = FALSE /\ rpc = "idle" /\ attempt = 0
  /\ lastError = NoError /\ settled = NoError /\ wakeAt = 0
  /\ fnLog = <<>> /\ sleeps = 0 /\ session = 0

Vaults == {"A", "B"}

\* A property of a JavaScript object that holds a string: whether the
\* object has it as an own property, and its value (undefined or a string).
NoProp       == [own |-> FALSE, t |-> "undefined", s |-> ""]
UndefProp    == [own |-> TRUE, t |-> "undefined", s |-> ""]
StrProp(str) == [own |-> TRUE, t |-> "str", s |-> str]

\* Before any ShoraSDK is constructed.
NoSdk ==
  [built |-> FALSE, thrown |-> FALSE, message |-> "",
   given |-> [baseUrl |-> NoProp, environment |-> NoProp],
   envBase |-> NoProp, httpClient |-> FALSE,
   baseUrl |-> NoProp, baseURL |-> NoProp]

\* No ShoraSDK is constructed and no SecurityManager is in use.
AppUnused ==
  /\ processEnv = NoProp /\ sdk = NoSdk
  /\ rateLimitConfig = [windowMs |-> 0, max |-> 0] /\ checks = <<>>

\* `private requestContext = null`, and a context object ('' for a property
\* it does not have).
NoContext == [set |-> FALSE, ip |-> "", userAgent |-> ""]
Context(ip, userAgent) == [set |-> TRUE, ip |-> ip, userAgent |-> userAgent]

\* The admission state of the calls in flight is not recorded, no vault is
\* given a request context and no createPaymentSession call is made.
AuxUnused ==
  /\ admittedIn = [c \in Callers |-> "none"]
  /\ lastAdmission = "none"
  /\ requestContext = [v \in Vaults |-> NoContext]
  /\ validations = 0
  /\ madeOn = <<>>

\* No createPaymentSession call is made.
PaymentsUnused ==
  /\ decorated = FALSE /\ cache = NULL /\ posts = 0 /\ creates = <<>>

\* No SecurityEnhancement is in use.
VaultUnused ==
  /\ config = [v \in Vaults |-> NULL]
  /\ auditLogs = [v \in Vaults |-> <<>>]
  /\ token = NULL /\ origin = NULL /\ lastOp = NULL
  /\ previous = NULL /\ sink = NULL

Init ==
  /\ \E th \in OptFailureThresholds, rt \in OptResetTimeouts :
       CircuitBreakerInit(th, rt)
  /\ EnvInit
  /\ HistInit
  /\ RetryUnused
  /\ VaultUnused
  /\ PaymentsUnused
  /\ AppUnused
  /\ AuxUnused

\* Call slots are interchangeable: a new call takes the lowest idle one.
FreeSlot(c) == pc[c] = "idle" /\ \A d \in Callers : d < c => pc[d] # "idle"

Execute == \E c \in Callers :
  /\ metrics.totalRequests < MaxRequests /\ FreeSlot(c) /\ execute(c)
  /\ UNCHANGED <<rtVars, vaultVars, payVars, appVars, auxVars>>
Succeed == \E c \in Callers :
  CompleteSuccess(c) /\ UNCHANGED <<rtVars, vaultVars, payVars, appVars, auxVars>>
\* The operation fails only before the dependency has recovered, and in the
\* model not after MaxTime.
Fail    == \E c \in Callers :
  /\ ~recovered /\ now <= MaxTime /\ CompleteFailure(c)
  /\ UNCHANGED <<rtVars, vaultVars, payVars, appVars, auxVars>>
Reset   == reset /\ UNCHANGED <<rtVars, vaultVars, payVars, appVars, auxVars>>
Advance == \E d \in {now + 1, nextAttempt - 1, nextAttempt} :
  Tick(d) /\ UNCHANGED <<rtVars, vaultVars, payVars, appVars, auxVars>>

Next == Execute \/ Succeed \/ Fail \/ Reset \/ Advance \/ Recover

Spec == Init /\ [][Next]_vars

(***************************************************************************)
(* The breaker under fair scheduling: the clock keeps running, calls keep  *)
(* arriving and every awaited operation settles.  Once the request budget  *)
(* of the model is used up, calls still arrive as long as a recovered      *)
(* dependency's circuit has not closed and the call is not blocked.  No    *)
(* reset() is issued: the circuit can only close by way of HALF_OPEN.      *)
(***************************************************************************)
ExecuteLive == \E c \in Callers :
  /\ \/ metrics.totalRequests < MaxRequests
     \/ recovered /\ state # "CLOSED" /\ ~(state = "OPEN" /\ now < nextAttempt)
  /\ FreeSlot(c)
  /\ execute(c)
  /\ UNCHANGED <<rtVars, vaultVars, payVars, appVars, auxVars>>

NextLive == ExecuteLive \/ Succeed \/ Fail \/ Advance \/ Recover

LiveSpec ==
  /\ Init /\ [][NextLive]_vars
  /\ WF_vars(Advance) /\ WF_vars(ExecuteLive) /\ WF_vars(Succeed)

(***************************************************************************)
(* RetryManager, alone (fn is the operation) and in the composition of     *)
(* PaymentService, retry(() => circuitBreaker.execute(op)).  Calls of      *)
(* RetryManager.execute follow one another, so a later call finds the      *)
(* breaker as the earlier ones left it.                                    *)
(***************************************************************************)
RECURSIVE Pow(_, _)
Pow(b, e) == IF e = 0 THEN 1 ELSE b * Pow(b, e - 1)

\* new RetryManager(options)
RetryManagerInit(optRetries, optDelay) ==
  /\ optMaxRetries = optRetries
  /\ maxRetries = OrDefault(optRetries, DefaultMaxRetries)
  /\ baseDelay = OrDefault(optDelay[1], DefaultBaseDelay)
  /\ maxDelay = OrDefault(optDelay[2], DefaultMaxDelay)
  /\ backoffMultiplier = OrDefault(optDelay[4], DefaultBackoffMultiplier)
  /\ jitterPct = OrDefault(optDelay[3], DefaultJitterPct)

calculateDelayCapFirst(att, r) ==
  LET exponentialDelay == baseDelay * Pow(backoffMultiplier, att)
      delay == IF exponentialDelay < maxDelay THEN exponentialDelay
                                              ELSE maxDelay
  IN  (delay * (100 * RandSteps + jitterPct * r)) \div (100 * RandSteps)

calculateDelayNoCap(att, r) ==
  (baseDelay * Pow(backoffMultiplier, att) * (100 * RandSteps + jitterPct * r))
    \div (100 * RandSteps)

\* calculateDelay(attempt), with Math.random() = r / RandSteps:
\*   floor(min(exponentialDelay + exponentialDelay * jitter * random, maxDelay))
calculateDelay(att, r) ==
  LET exponentialDelay == baseDelay * Pow(backoffMultiplier, att)
      den == 100 * RandSteps
      num == exponentialDelay * den + exponentialDelay * jitterPct * r
  IN  IF num < maxDelay * den THEN num \div den ELSE maxDelay

OpError(i)          == [kind |-> "OpError", of |-> i]
CircuitOpenError(i) == [kind |-> "CircuitOpen", of |-> i]
Result(i)           == [kind |-> "result", of |-> i]

\* One fnLog entry: how the invocation ended, whether it was made while the
\* breaker was OPEN before nextAttempt, whether its failure opened the
\* breaker, and the operation's invocation count after it.
LogEntry(kind, early, opened, calls) ==
  [kind |-> kind, early |-> early, opened |-> opened, calls |-> calls]

\* execute(), line 147: the attempt that just failed was the last one.
ExhaustedLate(att, mr) == att = mr + 1
Exhausted(att, mr) == att = mr

\* execute(), lines 144-153: the catch block for attempt index att.
RetryCatch(att, err, sl) ==
  /\ attempt' = att
  /\ lastError' = err
  /\ IF Exhausted(att, maxRetries)
       THEN /\ rpc' = "thrown"                 \* throw error
            /\ settled' = err
            /\ sleeps' = sl
            /\ UNCHANGED wakeAt
       ELSE /\ \E r \in 0 .. RandSteps - 1 :
                 wakeAt' = now + calculateDelay(att, r)
            /\ rpc' = "sleeping"               \* await this.sleep(delay)
            /\ sleeps' = sl + 1
            /\ UNCHANGED settled

\* execute(), line 143: `await fn(...args)` for attempt index att.  A call
\* the breaker blocks rejects at once and is caught.
InvokeFn(att, log, sl) ==
  LET n     == Len(log) + 1
      early == wrapped /\ state = "OPEN" /\ now < nextAttempt
  IN  /\ IF wrapped
           THEN execute(1)
           ELSE /\ opCalls' = opCalls + 1
                /\ UNCHANGED <<cbVars, now, pc, recovered, histVars>>
      /\ IF wrapped /\ lastEv'.kind = "reject"
           THEN /\ fnLog' = Append(log,
                              LogEntry("CircuitOpen", early, FALSE, opCalls'))
                /\ RetryCatch(att, CircuitOpenError(n), sl)
           ELSE /\ fnLog' = Append(log,
                              LogEntry("pending", early, FALSE, opCalls'))
                /\ rpc' = "calling"
                /\ attempt' = att
                /\ sleeps' = sl
                /\ UNCHANGED <<lastError, settled, wakeAt>>
      /\ UNCHANGED <<rmVars, wrapped>>

\* execute(fn): entry, `let lastError`, first iteration of the loop.
RetryStart ==
  /\ rpc \in {"idle", "returned", "thrown"}
  /\ session < MaxSessions
  /\ session' = session + 1
  /\ InvokeFn(0, <<>>, 0)
  /\ UNCHANGED <<vaultVars, payVars, appVars, auxVars>>

\* execute(), line 143: fn resolved, `return await fn(...args)`.
RetryResolveNoReturn ==
  /\ rpc = "calling"
  /\ IF wrapped THEN CompleteSuccess(1)
                ELSE UNCHANGED <<cbVars, envVars, histVars>>
  /\ fnLog' = [fnLog EXCEPT ![Len(fnLog)].kind = "result"]
  /\ IF attempt < maxRetries
       THEN /\ rpc' = "sleeping" /\ wakeAt' = now /\ sleeps' = sleeps + 1
            /\ UNCHANGED settled
       ELSE /\ rpc' = "returned" /\ settled' = Result(Len(fnLog))
            /\ UNCHANGED <<wakeAt, sleeps>>
  /\ UNCHANGED <<rmVars, wrapped, attempt, lastError, session, vaultVars, payVars, appVars, auxVars>>
RetryResolve ==
  /\ rpc = "calling"
  /\ IF wrapped THEN CompleteSuccess(1)
                ELSE UNCHANGED <<cbVars, envVars, histVars>>
  /\ fnLog' = [fnLog EXCEPT ![Len(fnLog)].kind = "result"]
  /\ rpc' = "returned"
  /\ settled' = Result(Len(fnLog))
  /\ UNCHANGED <<rmVars, wrapped, attempt, lastError, wakeAt, sleeps, session,
                 vaultVars, payVars, appVars, auxVars>>

\* execute(), lines 144-153: fn rejected with the operation's error.
RetryReject ==
  /\ rpc = "calling"
  /\ IF wrapped THEN CompleteFailure(1)
                ELSE UNCHANGED <<cbVars, envVars, histVars>>
  /\ fnLog' = [fnLog EXCEPT
                 ![Len(fnLog)].kind = "OpError",
                 ![Len(fnLog)].opened =
                    wrapped /\ state # "OPEN" /\ state' = "OPEN"]
  /\ RetryCatch(attempt, OpError(Len(fnLog)), sleeps)
  /\ UNCHANGED <<rmVars, wrapped, session, vaultVars, payVars, appVars, auxVars>>

RetryWakeSameAttempt ==
  /\ rpc = "sleeping"
  /\ now >= wakeAt
  /\ IF attempt <= maxRetries
       THEN InvokeFn(attempt, fnLog, sleeps)
       ELSE /\ rpc' = "thrown" /\ settled' = lastError
            /\ UNCHANGED <<cbVars, envVars, histVars, rmVars, wrapped,
                           attempt, lastError, wakeAt, fnLog, sleeps>>
  /\ UNCHANGED <<session, vaultVars, payVars, appVars, auxVars>>

\* execute(), lines 141 and 156: the sleep is over; `attempt++`, the loop
\* test, and the next iteration (or `throw lastError` after the loop).
RetryWake ==
  /\ rpc = "sleeping"
  /\ now >= wakeAt
  /\ IF attempt + 1 <= maxRetries
       THEN InvokeFn(attempt + 1, fnLog, sleeps)
       ELSE /\ rpc' = "thrown" /\ settled' = lastError
            /\ attempt' = attempt + 1
            /\ UNCHANGED <<cbVars, envVars, histVars, rmVars, wrapped,
                           lastError, wakeAt, fnLog, sleeps>>
  /\ UNCHANGED <<session, vaultVars, payVars, appVars, auxVars>>

\* The clock advances: by one unit up to MaxTime, to the end of the sleep,
\* or to the last instant before, or the instant of, an open circuit's
\* nextAttempt.
RetryAdvance ==
  \E d \in {now + 1, wakeAt, nextAttempt - 1, nextAttempt} :
    /\ d > now
    /\ \/ d = now + 1 /\ now < MaxTime
       \/ d = wakeAt /\ rpc = "sleeping"
       \/ d \in {nextAttempt - 1, nextAttempt} /\ wrapped /\ state = "OPEN"
    /\ now' = d
    /\ UNCHANGED <<cbVars, pc, opCalls, recovered, histVars, rtVars,
                   vaultVars, payVars, appVars, auxVars>>

\* PaymentService.createPaymentSession: withRetry(() =>
\* this.circuitBreaker.execute(() => this.client.post(...))).
createPaymentSession == wrapped = TRUE

\* The options the retry wrapper of PaymentService was built with.
WithRetryOptions == OptMaxRetries \X OptDelays

RetryInit ==
  /\ \E th \in OptFailureThresholds, rt \in OptResetTimeouts,
        o \in WithRetryOptions :
       /\ \/ createPaymentSession
          \/ wrapped = FALSE /\ th = 0 /\ rt = 0
       /\ CircuitBreakerInit(th, rt)
       /\ RetryManagerInit(o[1], o[2])
  /\ EnvInit
  /\ HistInit
  /\ rpc = "idle" /\ attempt = 0
  /\ lastError = NoError /\ settled = NoError /\ wakeAt = 0
  /\ fnLog = <<>> /\ sleeps = 0 /\ session = 0
  /\ VaultUnused
  /\ PaymentsUnused
  /\ AppUnused
  /\ AuxUnused

RetryNext ==
  RetryStart \/ RetryResolve \/ RetryReject \/ RetryWake \/ RetryAdvance

RetrySpec == RetryInit /\ [][RetryNext]_vars

\* The same under fair scheduling: every invocation of fn settles, the
\* clock keeps running (so every setTimeout fires) and a call whose sleep
\* is over resumes.
\* Each of these steps changes the clock, the position of the call or the
\* number of invocations made.
progress == <<now, rpc, Len(fnLog)>>

RetryLiveSpec ==
  /\ RetryInit /\ [][RetryNext]_vars
  /\ WF_progress(RetryResolve \/ RetryReject)
  /\ WF_progress(RetryAdvance)
  /\ WF_progress(RetryWake)

(***************************************************************************)
(* SecurityEnhancement, the JSON-envelope vault.                           *)
(*                                                                         *)
(* Strings are sequences of characters.  JSON.stringify and JSON.parse are *)
(* modelled character by character.  PBKDF2, AES-CBC, and the Base64 and   *)
(* hex encodings of ciphertext, iv and salt are taken as ideal: the        *)
(* derived key is determined by (secret, salt, iterations), and a          *)
(* ciphertext decrypts to its plaintext under the key and iv it was made   *)
(* with and to garbage under any other.                                    *)
(***************************************************************************)
QUOTE     == "\""
BACKSLASH == "\\"
Digits    == <<"0", "1", "2", "3", "4", "5", "6", "7", "8", "9">>

\* The element of a one-element set.  Only({e(v) : v \in {x}}) is e(x) with
\* x evaluated once, like `const v = x` before an expression that uses v.
Only(S) == CHOOSE r \in S : TRUE

\* JSON.stringify of the characters lo .. hi of a string: '"' and '\' are
\* escaped.
RECURSIVE EscapeRange(_, _, _)
EscapeRange(str, lo, hi) ==
  IF \A k \in lo .. hi : str[k] \notin {QUOTE, BACKSLASH}
    THEN SubSeq(str, lo, hi)
  ELSE IF lo = hi THEN <<BACKSLASH, str[lo]>>
  ELSE Only({EscapeRange(str, lo, mid) \o EscapeRange(str, mid + 1, hi)
             : mid \in {(lo + hi) \div 2}})

Escape(str) == Only({EscapeRange(s, 1, Len(s)) : s \in {str}})

QuotedRaw(str) == <<QUOTE>> \o str \o <<QUOTE>>
Quoted(str) == <<QUOTE>> \o Escape(str) \o <<QUOTE>>

\* JSON.stringify of a non-negative integer.
RECURSIVE NatToChars(_)
NatToChars(n) ==
  Only({
    IF m < 10 THEN <<Digits[m + 1]>>
    ELSE NatToChars(m \div 10) \o <<Digits[(m % 10) + 1]>>
    : m \in {n}})

\* JSON values: strings, null, numbers and flat objects (a sequence of
\* <<key, value>> members).
JStr(str)  == [t |-> "str", v |-> str]
JNull      == [t |-> "null", v |-> <<>>]
JNum(n)    == [t |-> "num", v |-> n]
JObj(mem)  == [t |-> "obj", v |-> mem]
Undefined  == [t |-> "undefined", v |-> <<>>]

K_token          == <<"t", "o", "k", "e", "n">>
K_additionalData == <<"a", "d", "d", "i", "t", "i", "o", "n", "a", "l",
                      "D", "a", "t", "a">>
K_tenantId       == <<"t", "e", "n", "a", "n", "t", "I", "d">>
K_ts             == <<"t", "s">>
K_expires        == <<"e", "x", "p", "i", "r", "e", "s">>
T_null           == <<"n", "u", "l", "l">>

\* JSON.stringify of a string, null or a number.
StringifyScalar(val) ==
  Only({
    CASE x.t = "str"  -> Quoted(x.v)
      [] x.t = "null" -> T_null
      [] x.t = "num"  -> NatToChars(x.v)
    : x \in {val}})

\* JSON.stringify of the members of an object.
RECURSIVE StringifyMembers(_)
StringifyMembers(mem) ==
  Only({
    IF ms = <<>> THEN <<>>
    ELSE Quoted(ms[1][1]) \o <<":">> \o StringifyScalar(ms[1][2])
           \o (IF Len(ms) = 1 THEN <<>>
               ELSE <<",">> \o StringifyMembers(Tail(ms)))
    : ms \in {mem}})

\* JSON.stringify of a value.
Stringify(val) ==
  Only({
    IF x.t = "obj" THEN <<"{">> \o StringifyMembers(x.v) \o <<"}">>
                   ELSE StringifyScalar(x)
    : x \in {val}})

\* JSON.parse.  A parse step returns [ok, val, next]: whether a value was
\* read at position i, the value, and the position after it.
Failed == [ok |-> FALSE, val |-> Undefined, next |-> 0]
Read(val, next) == [ok |-> TRUE, val |-> val, next |-> next]

\* The number of '\' that stand directly before position k of a string
\* literal whose characters start at position i.
BackslashesBefore(txt, i, k) ==
  CHOOSE m \in 0 .. k - i :
    /\ \A h \in k - m .. k - 1 : txt[h] = BACKSLASH
    /\ m = k - i \/ txt[k - m - 1] # BACKSLASH

\* The character at position k is escaped; it is a '\' that escapes the next.
Escaped(txt, i, k)  == BackslashesBefore(txt, i, k) % 2 = 1
Escaping(txt, i, k) == txt[k] = BACKSLASH /\ ~Escaped(txt, i, k)

\* The position of the '"' that ends the literal; 0 if there is none.
StringEnd(txt, i) ==
  LET closing(k) == txt[k] = QUOTE /\ ~Escaped(txt, i, k)
  IN  IF \E k \in i .. Len(txt) : closing(k)
        THEN CHOOSE k \in i .. Len(txt) :
               closing(k) /\ \A h \in i .. k - 1 : ~closing(h)
        ELSE 0

\* The characters lo .. hi of the literal without the escaping '\'.
RECURSIVE Unescape(_, _, _, _)
Unescape(txt, i, lo, hi) ==
  IF \A k \in lo .. hi : txt[k] # BACKSLASH THEN SubSeq(txt, lo, hi)
  ELSE IF lo = hi
    THEN IF Escaping(txt, i, lo) THEN <<>> ELSE <<txt[lo]>>
  ELSE Only({Unescape(txt, i, lo, mid) \o Unescape(txt, i, mid + 1, hi)
             : mid \in {(lo + hi) \div 2}})

\* A string literal whose characters start at position i: it ends at the
\* first '"' that is not escaped, and '\' escapes '"' and '\'.
ScanString(txt, i) ==
  Only({
    IF j = 0 THEN Failed
    ELSE IF \E k \in i .. j - 1 :
              Escaping(txt, i, k) /\ txt[k + 1] \notin {QUOTE, BACKSLASH}
      THEN Failed
    ELSE Read(JStr(Unescape(txt, i, i, j - 1)), j + 1)
    : j \in {StringEnd(txt, i)}})

DigitValue(c) == CHOOSE d \in 0 .. 9 : Digits[d + 1] = c
IsDigit(c) == \E d \in 1 .. 10 : Digits[d] = c

\* The position after the digits that start at position i.
DigitsEnd(txt, i) ==
  IF \A j \in i .. Len(txt) : IsDigit(txt[j]) THEN Len(txt) + 1
  ELSE CHOOSE j \in i .. Len(txt) :
         ~IsDigit(txt[j]) /\ \A k \in i .. j - 1 : IsDigit(txt[k])

\* The number written by the digits digs.
RECURSIVE CharsToNat(_)
CharsToNat(digs) ==
  Only({
    IF ds = <<>> THEN 0
    ELSE CharsToNat(SubSeq(ds, 1, Len(ds) - 1)) * 10
           + DigitValue(ds[Len(ds)])
    : ds \in {digs}})

ScanNumber(txt, i) ==
  Only({
    IF txt[i] = "0" /\ e > i + 1 THEN Failed
    ELSE Read(JNum(CharsToNat(SubSeq(txt, i, e - 1))), e)
    : e \in {DigitsEnd(txt, i)}})

StartsWith(txt, i, word) ==
  /\ i + Len(word) - 1 <= Len(txt)
  /\ \A j \in 1 .. Len(word) : txt[i + j - 1] = word[j]

\* A string, null or a number at position i.
ParseScalar(txt, i) ==
  IF i > Len(txt) THEN Failed
  ELSE IF txt[i] = QUOTE THEN ScanString(txt, i + 1)
  ELSE IF StartsWith(txt, i, T_null) THEN Read(JNull, i + Len(T_null))
  ELSE IF IsDigit(txt[i]) THEN ScanNumber(txt, i)
  ELSE Failed

\* The members of an object, from the first key at position i to the '}'.
RECURSIVE ParseMembers(_, _, _)
ParseMembers(txt, i, acc) ==
  IF i > Len(txt) \/ txt[i] # QUOTE THEN Failed
  ELSE
    Only({
      IF ~key.ok \/ key.next > Len(txt) \/ txt[key.next] # ":" THEN Failed
      ELSE
        Only({
          IF ~val.ok \/ val.next > Len(txt) THEN Failed
          ELSE
            Only({
              IF txt[val.next] = "}" THEN Read(JObj(mem), val.next + 1)
              ELSE IF txt[val.next] = ","
                     THEN ParseMembers(txt, val.next + 1, mem)
                     ELSE Failed
              : mem \in {Append(acc, <<key.val.v, val.val>>)}})
          : val \in {ParseScalar(txt, key.next + 1)}})
      : key \in {ScanString(txt, i + 1)}})

ParseValue(txt, i) ==
  IF i <= Len(txt) /\ txt[i] = "{"
    THEN IF i + 1 <= Len(txt) /\ txt[i + 1] = "}"
           THEN Read(JObj(<<>>), i + 2)
           ELSE ParseMembers(txt, i + 1, <<>>)
    ELSE ParseScalar(txt, i)

\* JSON.parse(text): [ok, val]; ~ok is a thrown SyntaxError.
JSONparse(text) ==
  Only({
    Only({
      IF r.ok /\ r.next = Len(txt) + 1 THEN r ELSE Failed
      : r \in {ParseValue(txt, 1)}})
    : txt \in {text}})

\* value.key, the property access: undefined on anything but an object
\* that has the key; of duplicate keys the last one counts.
Get(val, key) ==
  IF val.t = "obj" /\ \E j \in DOMAIN val.v : val.v[j][1] = key
    THEN val.v[CHOOSE j \in DOMAIN val.v :
                 /\ val.v[j][1] = key
                 /\ \A h \in DOMAIN val.v : val.v[h][1] = key => h <= j][2]
    ELSE Undefined

\* Hex encoding of a byte array (WordArray.toString(CryptoJS.enc.Hex)) and
\* its inverse (CryptoJS.enc.Hex.parse).
HexDigits == <<"0", "1", "2", "3", "4", "5", "6", "7", "8", "9",
               "a", "b", "c", "d", "e", "f">>
IsHex(c)    == \E d \in 1 .. 16 : HexDigits[d] = c
HexValue(c) == CHOOSE d \in 0 .. 15 : HexDigits[d + 1] = c

\* parseInt(pair, 16) << shift for two characters: the digits before the
\* first character that is no hex digit; NaN shifts to 0.
ParseIntHex(c1, c2) ==
  IF ~IsHex(c1) THEN 0
  ELSE IF ~IsHex(c2) THEN HexValue(c1)
  ELSE HexValue(c1) * 16 + HexValue(c2)

RECURSIVE HexStringify(_)
HexStringify(bytes) ==
  IF bytes = <<>> THEN <<>>
  ELSE <<HexDigits[(Head(bytes) \div 16) + 1],
         HexDigits[(Head(bytes) % 16) + 1]>>
         \o HexStringify(Tail(bytes))

RECURSIVE HexParse(_)
HexParse(chars) ==
  IF Len(chars) < 2 THEN <<>>
  ELSE <<ParseIntHex(chars[1], chars[2])>>
         \o HexParse(Tail(Tail(chars)))

\* CryptoJS.lib.WordArray.random: what the two calls of one encryptToken
\* can return, as [salt, iv].  One byte stands for the 32 bytes of a salt
\* and the 16 of an iv.
Randoms == {[salt |-> <<10>>, iv |-> <<7>>], [salt |-> <<241>>, iv |-> <<192>>]}

\* PBKDF2-SHA256: the derived key is determined by, and determines, the
\* secret, the salt and the iteration count.
PBKDF2(secret, salt, iterations) ==
  [secret |-> secret, salt |-> salt, iterations |-> iterations]

\* AES-256-CBC with Pkcs7 padding; the ciphertext stands for its Base64
\* text as well.
AESEncrypt(plain, key, iv) == [key |-> key, iv |-> iv, plain |-> plain]

\* What decrypted.toString(CryptoJS.enc.Utf8) can give under a key or iv
\* other than the ciphertext's: a "Malformed UTF-8 data" error, the empty
\* string, or text that is not an envelope.
Garbage ==
  {[ok |-> FALSE, text |-> <<>>, error |-> "Error: Malformed UTF-8 data"],
   [ok |-> TRUE, text |-> <<>>, error |-> ""],
   [ok |-> TRUE, text |-> <<"a">>, error |-> ""],
   [ok |-> TRUE, text |-> <<"7">>, error |-> ""],
   [ok |-> TRUE, text |-> T_null, error |-> ""]}

\* AES.decrypt(...).toString(Utf8): the set of possible outcomes.
AESDecrypt(cipher, key, iv) ==
  IF key = cipher.key /\ iv = cipher.iv
    THEN {[ok |-> TRUE, text |-> cipher.plain, error |-> ""]}
    ELSE Garbage

\* !x for a JavaScript value.
Falsy(val) ==
  \/ val.t \in {"null", "undefined"}
  \/ val.t = "num" /\ val.v = 0
  \/ val.t = "str" /\ val.v = <<>>

\* Before the first token is issued.
NoToken  == [encrypted |-> AESEncrypt(<<>>, PBKDF2("", <<>>, 0), <<>>),
             iv |-> <<>>, salt |-> <<>>, timestamp |-> 0]
NoPayment == [amount |-> 0, currency |-> <<>>, userId |-> <<>>,
              agentId |-> Undefined]
NoOrigin == [by |-> "", op |-> "none", s |-> <<>>, ad |-> Undefined,
             data |-> NoPayment, at |-> 0]
NoOp     == [op |-> "none", by |-> "", result |-> Undefined,
             raised |-> FALSE, probe |-> "none", at |-> 0]
NoSink   == [inFlight |-> 0, delivered |-> 0, warned |-> 0]

\* What a call did: the operation, the vault, the value returned, whether
\* it raised instead, the kind of token it was given, and the time.
Call(op, v, result, raised, probe) ==
  [op |-> op, by |-> v, result |-> result, raised |-> raised,
   probe |-> probe, at |-> now]

\* ---- configurations and arguments ---------------------------------------
Alphabet       == {":", QUOTE, BACKSLASH}
Strings        == UNION {[1 .. k -> Alphabet] : k \in 0 .. MaxStrLen}
OptKeys        == {"k1", "k2"}
OptTenants     == {<<"a">>, <<"b", QUOTE>>}
OptIterations  == {NULL, 0, 1}    \* NULL: no pbkdf2Iterations given
\* additionalData: not given, empty, or a string
OptAdditionalData ==
  {Undefined} \cup {JStr(str) : str \in {<<>>, <<QUOTE, ":">>}}
\* the payment a payment token is generated for
PaymentData    == [amount |-> 5, currency |-> <<"U">>, userId |-> <<"u">>,
                   agentId |-> Undefined]
\* the same payment, or one made by an agent
PaymentDatas   == {PaymentData, [PaymentData EXCEPT !.agentId = JStr(<<"g">>)]}
\* auditLogEndpoint: not configured, or a URL
OptEndpoints   == {"", "https://audit"}
Nonces         == {<<"0", "a">>, <<"f", "1">>}

\* constructor: { pbkdf2Iterations: 100000, ...config }
SecurityEnhancement(key, tenant, optIter, audit, endpoint) ==
  [encryptionKey      |-> key,
   tenantId           |-> tenant,
   pbkdf2Iterations   |-> IF optIter = NULL THEN DefaultPbkdf2Iterations
                                            ELSE optIter,
   enableAuditLogging |-> audit,
   auditLogEndpoint   |-> endpoint]

\* this.config.pbkdf2Iterations || 100000
Iterations(v) == OrDefault(config[v].pbkdf2Iterations, DefaultPbkdf2Iterations)

\* new Date(ms).toISOString() and new Date(text).getTime(): the text
\* stands for the millisecond it writes; text that is no date gives NaN.
toISOString(ms) == [iso |-> "date", ms |-> ms]
InvalidDate     == [iso |-> "invalid", ms |-> 0]
IsNaN(date)     == date.iso # "date"
getTime(date)   == date.ms

\* this.requestContext?.ip || '127.0.0.1'
getClientIP(v) ==
  IF requestContext[v].ip # "" THEN requestContext[v].ip ELSE "127.0.0.1"

\* this.requestContext?.userAgent || `ShoraAI-PaymentSDK/${sdkVersion ||
\* 'unknown'}`; the configurations modelled give no sdkVersion.
getUserAgent(v) ==
  IF requestContext[v].userAgent # "" THEN requestContext[v].userAgent
  ELSE "ShoraAI-PaymentSDK/unknown"

\* The entry logAudit builds.
AuditEntryOfFirst(v, action, details, status) ==
  [timestamp |-> toISOString(now),
   tenantId  |-> config["A"].tenantId,
   action    |-> action,
   status    |-> status,
   details   |-> details,
   ipAddress |-> getClientIP(v),
   userAgent |-> getUserAgent(v)]

AuditEntry(v, action, details, status) ==
  [timestamp |-> toISOString(now),
   tenantId  |-> config[v].tenantId,
   action    |-> action,
   status    |-> status,
   details   |-> details,
   ipAddress |-> getClientIP(v),
   userAgent |-> getUserAgent(v)]

logAuditAlways(v, logs, action, details, status) ==
  Append(logs, AuditEntry(v, action, details, status))

\* logAudit(action, details, ..., status): the audit log afterwards.
logAudit(v, logs, action, details, status) ==
  IF ~config[v].enableAuditLogging THEN logs
  ELSE Append(logs, AuditEntry(v, action, details, status))

\* logAudit, lines 456-460: every entry pushed is handed to sendAuditLog
\* when an endpoint is configured; the POST is then in flight.  The sink
\* after an operation of vault v took the log from `before` to `after`.
sendAuditLog(v, before, after) ==
  IF config[v].auditLogEndpoint # ""
    THEN [sink EXCEPT !.inFlight = @ + (Len(after) - Len(before))]
    ELSE sink

\* encryptToken(token, additionalData) with the random salt and iv drawn:
\* the EncryptedToken returned.
Encrypted(v, str, ad, salt, iv) ==
  LET key     == PBKDF2(config[v].encryptionKey, salt, Iterations(v))
      payload == JObj(<< <<K_token, JStr(str)>>,
                         <<K_additionalData,
                           IF Falsy(ad) THEN JNull ELSE ad>>,
                         <<K_tenantId, JStr(config[v].tenantId)>>,
                         <<K_ts, JNum(now)>> >>)
  IN  [encrypted |-> AESEncrypt(Stringify(payload), key, iv),
       iv        |-> HexStringify(iv),
       salt      |-> HexStringify(salt),
       timestamp |-> now]

\* CryptoJS.lib.WordArray.random: the salt and iv a call can draw.  The
\* generator is taken as ideal: it does not return bytes it returned for
\* the token issued before.
WordArrayRepeats == Randoms
WordArrayRandom ==
  {r \in Randoms : /\ HexStringify(r.salt) # token.salt
                   /\ HexStringify(r.iv) # token.iv}

encryptTokenAudited(v, str, ad) ==
  /\ \E r \in WordArrayRandom : token' = Encrypted(v, str, ad, r.salt, r.iv)
  /\ origin' = [by |-> v, op |-> "encryptToken", s |-> str, ad |-> ad,
                data |-> NoPayment, at |-> now]
  /\ lastOp' = Call("encryptToken", v, Undefined, FALSE, "none")
  /\ previous' = token
  /\ auditLogs' = [auditLogs EXCEPT
        ![v] = logAudit(v, @, "encrypt_success",
                        <<"Token encrypted successfully", "">>, "success")]
  /\ sink' = sendAuditLog(v, auditLogs[v], auditLogs'[v])
  /\ UNCHANGED config

encryptToken(v, str, ad) ==
  /\ \E r \in WordArrayRandom : token' = Encrypted(v, str, ad, r.salt, r.iv)
  /\ origin' = [by |-> v, op |-> "encryptToken", s |-> str, ad |-> ad,
                data |-> NoPayment, at |-> now]
  /\ lastOp' = Call("encryptToken", v, Undefined, FALSE, "none")
  /\ previous' = token
  /\ UNCHANGED <<config, auditLogs, sink>>

\* decryptToken(), line 411: the envelope is rejected.
TenantMismatchNoCheck(payload, v) == Falsy(payload)
TenantMismatch(payload, v) ==
  Falsy(payload) \/ Get(payload, K_tenantId) # JStr(config[v].tenantId)

\* decryptToken(), lines 417-420: what the catch block gives for an error
\* thrown anywhere in the try block.
Rethrown(error) ==
  [ret |-> Undefined, raised |-> TRUE, action |-> "decrypt_error",
   details |-> <<"Token decryption error: ", error>>]
Caught(error) ==
  [ret |-> JNull, raised |-> FALSE, action |-> "decrypt_error",
   details |-> <<"Token decryption error: ", error>>]

\* decryptToken(encryptedToken) when decryption gave dec: the value
\* returned and the audit entry written.
Decrypted(v, dec) ==
  IF ~dec.ok
    THEN Caught(dec.error)
  ELSE IF dec.text = <<>>
    THEN [ret |-> JNull, raised |-> FALSE, action |-> "decrypt_failed",
          details |-> <<"Token decryption failed - invalid data", "">>]
  ELSE
    Only({
      IF ~parsed.ok
        THEN Caught("SyntaxError")
      ELSE IF TenantMismatch(parsed.val, v)
        THEN [ret |-> JNull, raised |-> FALSE, action |-> "decrypt_failed",
              details |-> <<"Token decryption failed - tenant mismatch", "">>]
      ELSE [ret |-> Get(parsed.val, K_token), raised |-> FALSE,
            action |-> "decrypt_success",
            details |-> <<"Token decrypted successfully", "">>]
      : parsed \in {JSONparse(dec.text)}})

\* ---- the tokens handed to decryptToken -----------------------------------
\* A field the caller's object does not have.
MissingField == <<"undefined">>
\* A ciphertext that no key and iv of a vault produced.
Corrupt(cipher) == [cipher EXCEPT !.key = PBKDF2("", <<>>, 0)]
NoCipher == AESEncrypt(MissingField, PBKDF2("", <<>>, 0), <<>>)

\* The token as it was returned, and what a caller can make of it.
Tampered(tok) ==
  {[kind |-> "intact",       tok |-> tok],
   [kind |-> "corrupted",    tok |-> [tok EXCEPT !.encrypted = Corrupt(@)]],
   [kind |-> "malformed iv", tok |-> [tok EXCEPT !.iv = <<"z", "z">>]],
   [kind |-> "malformed salt",
    tok |-> [tok EXCEPT !.salt = <<HexDigits[1], "z">>]],
   [kind |-> "missing iv",   tok |-> [tok EXCEPT !.iv = MissingField]],
   [kind |-> "missing encrypted",
    tok |-> [tok EXCEPT !.encrypted = NoCipher]]}
Intact(tok) == {p \in Tampered(tok) : p.kind = "intact"}

\* The outcomes of AES.decrypt inside decryptToken(tok) of vault v.  Hex.parse
\* of a missing field and AES.decrypt of a missing ciphertext throw a TypeError.
DecryptOutcomes(v, tok) ==
  IF MissingField \in {tok.salt, tok.iv} \/ tok.encrypted = NoCipher
    THEN {[ok |-> FALSE, text |-> <<>>, error |-> "TypeError"]}
  ELSE
    LET salt == HexParse(tok.salt)
        iv   == HexParse(tok.iv)
        key  == PBKDF2(config[v].encryptionKey, salt, Iterations(v))
    IN  AESDecrypt(tok.encrypted, key, iv)

decryptToken(v, p) ==
  /\ \E dec \in DecryptOutcomes(v, p.tok) : \E d \in {Decrypted(v, dec)} :
       /\ auditLogs' = [auditLogs EXCEPT
             ![v] = logAudit(v, @, d.action, d.details, "success")]
       /\ lastOp' = Call("decryptToken", v, d.ret, d.raised, p.kind)
  /\ sink' = sendAuditLog(v, auditLogs[v], auditLogs'[v])
  /\ UNCHANGED <<config, token, origin, previous>>

\* generateSecurePaymentToken(paymentData)
K_amount   == <<"a", "m", "o", "u", "n", "t">>
K_currency == <<"c", "u", "r", "r", "e", "n", "c", "y">>
K_userId   == <<"u", "s", "e", "r", "I", "d">>
K_agentId  == <<"a", "g", "e", "n", "t", "I", "d">>
K_nonce    == <<"n", "o", "n", "c", "e">>

\* { ...paymentData, tenantId, nonce, expires } as JSON.stringify sees it: a
\* member whose value is undefined is left out.
TokenData(v, data, nonce) ==
  JObj(<< <<K_amount, JNum(data.amount)>>,
          <<K_currency, JStr(data.currency)>>,
          <<K_userId, JStr(data.userId)>> >>
       \o (IF data.agentId.t = "undefined" THEN <<>>
           ELSE << <<K_agentId, data.agentId>> >>)
       \o << <<K_tenantId, JStr(config[v].tenantId)>>,
             <<K_nonce, JStr(nonce)>>,
             <<K_expires, JNum(now + TokenLifetime)>> >>)

generateSecurePaymentToken(v, data) ==
  /\ \E nonce \in Nonces, r \in WordArrayRandom :
       \E str \in {Stringify(TokenData(v, data, nonce))} :
         /\ token' = Encrypted(v, str, Undefined, r.salt, r.iv)
         /\ origin' = [by |-> v, op |-> "generateSecurePaymentToken",
                       s |-> str, ad |-> Undefined, data |-> data,
                       at |-> now]
  /\ auditLogs' = [auditLogs EXCEPT
        ![v] = logAudit(v, @, "payment_token_generated",
                        <<"Secure payment token generated", "">>, "success")]
  /\ sink' = sendAuditLog(v, auditLogs[v], auditLogs'[v])
  /\ lastOp' = Call("generateSecurePaymentToken", v, Undefined, FALSE, "none")
  /\ previous' = token
  /\ UNCHANGED config

\* validatePaymentToken(), lines 514-541, given what decryptToken returned:
\* the result and the audit entry written.
Invalid(error, details) ==
  [valid |-> FALSE, error |-> error, data |-> Undefined,
   action |-> "payment_token_validation_failed", details |-> details]

ExpiredAt(expires) == expires.t = "num" /\ expires.v # 0 /\ now >= expires.v
\* data.expires && Date.now() > data.expires
Expired(expires)   == expires.t = "num" /\ expires.v # 0 /\ now > expires.v

ValidatedOnce(v, decrypted) ==
  IF Falsy(decrypted)
    THEN Invalid("Invalid token", <<"Token decryption failed", "">>)
  ELSE IF validations > 0
    THEN Invalid("Token already used", <<"Token already used", "">>)
  ELSE
    Only({
      IF ~parsed.ok
        THEN Invalid("Invalid token format",
                     <<"Token parsing error: ", "SyntaxError">>)
      ELSE IF parsed.val.t = "null"
        THEN Invalid("Invalid token format",
                     <<"Token parsing error: ", "TypeError">>)
      ELSE IF Expired(Get(parsed.val, K_expires))
        THEN Invalid("Token expired", <<"Token expired", "">>)
      ELSE IF Get(parsed.val, K_tenantId) # JStr(config[v].tenantId)
        THEN Invalid("Tenant mismatch", <<"Tenant mismatch", "">>)
      ELSE [valid |-> TRUE, error |-> "", data |-> parsed.val,
            action |-> "payment_token_validated",
            details |-> <<"Payment token validated successfully", "">>]
      : parsed \in {JSONparse(decrypted.v)}})

Validated(v, decrypted) ==
  IF Falsy(decrypted)
    THEN Invalid("Invalid token", <<"Token decryption failed", "">>)
  ELSE
    Only({
      IF ~parsed.ok
        THEN Invalid("Invalid token format",
                     <<"Token parsing error: ", "SyntaxError">>)
      ELSE IF parsed.val.t = "null"
        THEN Invalid("Invalid token format",
                     <<"Token parsing error: ", "TypeError">>)
      ELSE IF Expired(Get(parsed.val, K_expires))
        THEN Invalid("Token expired", <<"Token expired", "">>)
      ELSE IF Get(parsed.val, K_tenantId) # JStr(config[v].tenantId)
        THEN Invalid("Tenant mismatch", <<"Tenant mismatch", "">>)
      ELSE [valid |-> TRUE, error |-> "", data |-> parsed.val,
            action |-> "payment_token_validated",
            details |-> <<"Payment token validated successfully", "">>]
      : parsed \in {JSONparse(decrypted.v)}})

validatePaymentToken(v, p) ==
  /\ \E dec \in DecryptOutcomes(v, p.tok) : \E d \in {Decrypted(v, dec)} :
       \E r \in {Validated(v, d.ret)} :
         LET logs == logAudit(v, auditLogs[v], d.action, d.details, "success")
         IN  /\ auditLogs' = [auditLogs EXCEPT
                   ![v] = logAudit(v, logs, r.action, r.details, "success")]
             /\ lastOp' = Call("validatePaymentToken", v,
                               [valid |-> r.valid, error |-> r.error,
                                data |-> r.data],
                               d.raised, p.kind)
  /\ sink' = sendAuditLog(v, auditLogs[v], auditLogs'[v])
  /\ UNCHANGED <<config, token, origin, previous>>

\* ---- the vaults' callers --------------------------------------------------
OtherUnchanged ==
  UNCHANGED <<cbVars, pc, opCalls, recovered, histVars, rtVars, payVars, appVars, auxVars>>

\* A token has been issued.
Issued == origin.op # "none"

\* One token is issued, by either vault; both vaults then work on it.
EncryptToken == \E v \in Vaults, str \in Strings, ad \in OptAdditionalData :
  /\ ~Issued
  /\ encryptToken(v, str, ad) /\ UNCHANGED now /\ OtherUnchanged

DecryptToken == \E v \in Vaults :
  /\ Issued
  /\ \E p \in Intact(token) : decryptToken(v, p)
  /\ UNCHANGED now /\ OtherUnchanged

GenerateSecurePaymentToken == \E v \in Vaults :
  /\ ~Issued
  /\ generateSecurePaymentToken(v, PaymentData)
  /\ UNCHANGED now /\ OtherUnchanged

ValidatePaymentToken == \E v \in Vaults :
  /\ Issued
  /\ \E p \in Intact(token) : validatePaymentToken(v, p)
  /\ UNCHANGED now /\ OtherUnchanged

\* Two vaults without audit logging.  The first one's key is fixed and it
\* is given no pbkdf2Iterations; the second one's key and iterations are
\* the same or others.  The clock stands still.
VaultInit ==
  /\ \E tA \in OptTenants,
        kB \in OptKeys, tB \in OptTenants, iB \in OptIterations :
       config = [v \in Vaults |->
                   IF v = "A"
                     THEN SecurityEnhancement("k1", tA, NULL, FALSE, "")
                     ELSE SecurityEnhancement(kB, tB, iB, FALSE, "")]
  /\ auditLogs = [v \in Vaults |-> <<>>]
  /\ token = NoToken /\ origin = NoOrigin /\ lastOp = NoOp
  /\ previous = NoToken /\ sink = NoSink
  /\ CircuitBreakerInit(0, 0)
  /\ EnvInit
  /\ HistInit
  /\ RetryUnused
  /\ PaymentsUnused
  /\ AppUnused
  /\ AuxUnused

VaultNext ==
  \/ EncryptToken
  \/ DecryptToken
  \/ GenerateSecurePaymentToken
  \/ ValidatePaymentToken

VaultSpec == VaultInit /\ [][VaultNext]_vars

\* ---- probing the vaults ---------------------------------------------------
\* Two vaults, both with or both without audit logging and a remote sink;
\* one token is issued and then handed, as returned or tampered with, to either
\* vault.  The clock stands still.
ProbeStrings == {<<"s", QUOTE>>}
OptAudit ==
  {[log |-> l, endpoint |-> e] : l \in BOOLEAN, e \in OptEndpoints}

\* The audit entries held by the two vaults together.
Logged == Len(auditLogs["A"]) + Len(auditLogs["B"])
Room   == Logged < MaxLog

ProbeInit ==
  /\ \E kB \in OptKeys, tB \in OptTenants, a \in OptAudit :
       config = [v \in Vaults |->
                   IF v = "A"
                     THEN SecurityEnhancement("k1", <<"a">>, NULL,
                                              a.log, a.endpoint)
                     ELSE SecurityEnhancement(kB, tB, NULL,
                                              a.log, a.endpoint)]
  /\ auditLogs = [v \in Vaults |-> <<>>]
  /\ token = NoToken /\ origin = NoOrigin /\ lastOp = NoOp
  /\ previous = NoToken /\ sink = NoSink
  /\ CircuitBreakerInit(0, 0)
  /\ EnvInit
  /\ HistInit
  /\ RetryUnused
  /\ PaymentsUnused
  /\ AppUnused
  /\ AuxUnused

ProbeEncrypt == \E v \in Vaults, str \in ProbeStrings :
  /\ ~Issued
  /\ encryptToken(v, str, Undefined) /\ UNCHANGED now /\ OtherUnchanged

ProbeGenerate == \E v \in Vaults, data \in PaymentDatas :
  /\ ~Issued /\ Room
  /\ generateSecurePaymentToken(v, data) /\ UNCHANGED now /\ OtherUnchanged

ProbeDecrypt == \E v \in Vaults :
  /\ Issued /\ Room
  /\ \E p \in Tampered(token) : decryptToken(v, p)
  /\ UNCHANGED now /\ OtherUnchanged

ProbeValidate == \E v \in Vaults :
  /\ Issued /\ Room
  /\ \E p \in Tampered(token) : validatePaymentToken(v, p)
  /\ UNCHANGED now /\ OtherUnchanged

\* A caller's own logAudit(action, details).
ProbeLogAudit == \E v \in Vaults :
  /\ Room
  /\ auditLogs' = [auditLogs EXCEPT
        ![v] = logAudit(v, @, "a", <<"details", "">>, "success")]
  /\ sink' = sendAuditLog(v, auditLogs[v], auditLogs'[v])
  /\ lastOp' = Call("logAudit", v, Undefined, FALSE, "none")
  /\ UNCHANGED <<config, token, origin, previous, now>> /\ OtherUnchanged

\* sendAuditLog(), lines 481-487: the sink answers a POST in flight; a failed
\* POST is caught and console.warn is all that happens.
PostFailedDrops(logs) == [v \in Vaults |-> SubSeq(logs[v], 1, Len(logs[v]) - 1)]
PostFailed(logs) == logs

PostOk ==
  /\ sink.inFlight > 0
  /\ sink' = [sink EXCEPT !.inFlight = @ - 1, !.delivered = @ + 1]
  /\ UNCHANGED <<config, auditLogs, token, origin, lastOp, previous, now>>
  /\ OtherUnchanged

PostFail ==
  /\ sink.inFlight > 0
  /\ sink' = [sink EXCEPT !.inFlight = @ - 1, !.warned = @ + 1]
  /\ auditLogs' = PostFailed(auditLogs)
  /\ UNCHANGED <<config, token, origin, lastOp, previous, now>>
  /\ OtherUnchanged

ProbeNext ==
  \/ ProbeEncrypt
  \/ ProbeGenerate
  \/ ProbeDecrypt
  \/ ProbeValidate
  \/ ProbeLogAudit
  \/ PostOk
  \/ PostFail

ProbeSpec == ProbeInit /\ [][ProbeNext]_vars

\* ---- tokens over time -----------------------------------------------------
\* Two vaults without audit logging.  A token is issued at some time, the
\* clock advances to the end of the token's lifetime and past it, and the
\* vaults validate the token; or the call that issued the token is made a
\* second time, by either vault.
LifeInit ==
  /\ \E kB \in OptKeys, tB \in OptTenants :
       config = [v \in Vaults |->
                   IF v = "A"
                     THEN SecurityEnhancement("k1", <<"a">>, NULL, FALSE, "")
                     ELSE SecurityEnhancement(kB, tB, NULL, FALSE, "")]
  /\ auditLogs = [v \in Vaults |-> <<>>]
  /\ token = NoToken /\ origin = NoOrigin /\ lastOp = NoOp
  /\ previous = NoToken /\ sink = NoSink
  /\ CircuitBreakerInit(0, 0)
  /\ EnvInit
  /\ HistInit
  /\ RetryUnused
  /\ PaymentsUnused
  /\ AppUnused
  /\ AuxUnused

LifeEncrypt == \E v \in Vaults, str \in ProbeStrings, ad \in OptAdditionalData :
  /\ ~Issued
  /\ encryptToken(v, str, ad) /\ UNCHANGED now /\ OtherUnchanged

LifeGenerate == \E v \in Vaults, data \in PaymentDatas :
  /\ ~Issued
  /\ generateSecurePaymentToken(v, data) /\ UNCHANGED now /\ OtherUnchanged

\* encryptToken(token, additionalData) once more with the same arguments,
\* at the same or a later time, by the same or the other vault.
EncryptAgain == \E v \in Vaults :
  /\ origin.op = "encryptToken" /\ previous = NoToken
  /\ encryptToken(v, origin.s, origin.ad) /\ UNCHANGED now /\ OtherUnchanged

LifeValidate == \E v \in Vaults :
  /\ origin.op = "generateSecurePaymentToken"
  /\ \E p \in Intact(token) : validatePaymentToken(v, p)
  /\ UNCHANGED now /\ OtherUnchanged

\* Date.now() advances: by a millisecond before a token is issued, and then
\* to the millisecond before, of or after the end of the token's lifetime.
LifeTick ==
  /\ \E t \in IF Issued
               THEN {origin.at + TokenLifetime + d : d \in {-1, 0, 1}}
               ELSE {u \in {now + 1} : u <= MaxTime} :
       /\ t > now
       /\ now' = t
  /\ UNCHANGED <<cbVars, pc, opCalls, recovered, histVars, rtVars, vaultVars, payVars, appVars, auxVars>>

LifeNext ==
  \/ LifeEncrypt
  \/ LifeGenerate
  \/ EncryptAgain
  \/ LifeValidate
  \/ LifeTick

LifeSpec == LifeInit /\ [][LifeNext]_vars

\* ---- reading the audit log ------------------------------------------------
\* filtered.sort((a, b) => getTime(b.timestamp) - getTime(a.timestamp)):
\* x stays before y when the comparator gives no positive number for them.
BeforeOldestFirst(x, y) == getTime(x.timestamp) <= getTime(y.timestamp)
Before(x, y) == getTime(x.timestamp) >= getTime(y.timestamp)

\* Array.prototype.sort is stable: an entry goes behind the entries that
\* stay before it.
RECURSIVE Sorted(_)
Sorted(logs) ==
  IF logs = <<>> THEN <<>>
  ELSE
    Only({
      Only({
        SubSeq(acc, 1, p) \o <<e>> \o SubSeq(acc, p + 1, Len(acc))
        : p \in {Cardinality({i \in DOMAIN acc : Before(acc[i], e)})}})
      : acc \in {Sorted(SubSeq(logs, 1, Len(logs) - 1))},
        e \in {logs[Len(logs)]}})

\* getAuditLogs(startDate, endDate, action); an argument is Undefined, a
\* date string (startDate, endDate) or a string (action).  A comparison with
\* NaN is false.
getAuditLogs(v, startDate, endDate, action) ==
  LET own     == SelectSeq(auditLogs[v],
                   LAMBDA log : log.tenantId = config[v].tenantId)
      started == IF startDate.t = "undefined" THEN own
                 ELSE SelectSeq(own, LAMBDA log :
                        /\ ~IsNaN(startDate.v)
                        /\ getTime(log.timestamp) >= getTime(startDate.v))
      ended   == IF endDate.t = "undefined" THEN started
                 ELSE SelectSeq(started, LAMBDA log :
                        /\ ~IsNaN(endDate.v)
                        /\ getTime(log.timestamp) <= getTime(endDate.v))
      acted   == IF action.t = "undefined" \/ action.v = "" THEN ended
                 ELSE SelectSeq(ended, LAMBDA log : log.action = action.v)
  IN  Sorted(acted)

\* Two vaults with audit logging, of one tenant or of two.  The caller of
\* the first logs entries with the actions "a" and "b", the caller of the
\* second entries with the action "a", as time passes; both read the logs.
OptActions(v) == IF v = "A" THEN {"a", "b"} ELSE {"a"}
DateString(date) == [t |-> "str", v |-> date]
\* <<startDate, endDate>>
OptRanges  == {<<Undefined, Undefined>>,
               <<DateString(toISOString(1)), Undefined>>,
               <<DateString(InvalidDate), DateString(toISOString(1))>>}
OptFilters == {Undefined, [t |-> "str", v |-> "a"]}

AuditInit ==
  /\ \E tB \in OptTenants :
       config = [v \in Vaults |->
                   IF v = "A"
                     THEN SecurityEnhancement("k1", <<"a">>, NULL, TRUE, "")
                     ELSE SecurityEnhancement("k1", tB, NULL, TRUE, "")]
  /\ auditLogs = [v \in Vaults |-> <<>>]
  /\ token = NoToken /\ origin = NoOrigin /\ lastOp = NoOp
  /\ previous = NoToken /\ sink = NoSink
  /\ CircuitBreakerInit(0, 0)
  /\ EnvInit
  /\ HistInit
  /\ RetryUnused
  /\ PaymentsUnused
  /\ AppUnused
  /\ AuxUnused

LogAudit == \E v \in Vaults : \E action \in OptActions(v) :
  /\ Logged < MaxCalls
  /\ auditLogs' = [auditLogs EXCEPT
        ![v] = logAudit(v, @, action, <<"details", "">>, "success")]
  /\ sink' = sendAuditLog(v, auditLogs[v], auditLogs'[v])
  /\ lastOp' = Call("logAudit", v, Undefined, FALSE, "none")
  /\ UNCHANGED <<config, token, origin, previous, now>> /\ OtherUnchanged

GetAuditLogs ==
  \E v \in Vaults, range \in OptRanges, action \in OptFilters :
    /\ lastOp' = Call("getAuditLogs", v,
                      [entries   |-> getAuditLogs(v, range[1], range[2], action),
                       startDate |-> range[1],
                       endDate   |-> range[2],
                       action    |-> action],
                      FALSE, "none")
    /\ UNCHANGED <<config, auditLogs, token, origin, previous, sink, now>>
    /\ OtherUnchanged

AuditTick ==
  /\ now < MaxTime
  /\ now' = now + 1
  /\ UNCHANGED <<cbVars, pc, opCalls, recovered, histVars, rtVars, vaultVars, payVars, appVars, auxVars>>

AuditNext ==
  \/ LogAudit
  \/ GetAuditLogs
  \/ AuditTick

AuditSpec == AuditInit /\ [][AuditNext]_vars

\* ---- a vault in use -------------------------------------------------------
\* The first vault, with or without audit logging and a remote sink.  Its
\* caller sets a request context and issues one token, a payment token or
\* a plain one; a payment token is then decrypted and validated and the log
\* is read, in any order, as the token's lifetime passes.  The sink does
\* not answer.
OptContexts == {Context("10.0.0.1", "agent/1")}

\* Vault v can take the entries of one more operation.
RoomIn(v) == Len(auditLogs[v]) <= MaxLog

CtxInit ==
  /\ \E a \in OptAudit :
       config = [v \in Vaults |->
                   SecurityEnhancement("k1", <<"a">>, NULL, a.log, a.endpoint)]
  /\ auditLogs = [v \in Vaults |-> <<>>]
  /\ token = NoToken /\ origin = NoOrigin /\ lastOp = NoOp
  /\ previous = NoToken /\ sink = NoSink
  /\ CircuitBreakerInit(0, 0)
  /\ EnvInit
  /\ HistInit
  /\ RetryUnused
  /\ PaymentsUnused
  /\ AppUnused
  /\ AuxUnused

CtxFrame ==
  UNCHANGED <<cbVars, pc, opCalls, recovered, histVars, rtVars, payVars,
              appVars, raceVars, madeOn>>

\* setRequestContext(ctx)
setRequestContext(v, ctx) ==
  /\ requestContext' = [requestContext EXCEPT ![v] = ctx]
  /\ lastOp' = Call("setRequestContext", v, Undefined, FALSE, "none")
  /\ UNCHANGED <<config, auditLogs, token, origin, previous, sink>>

SetRequestContext == \E v \in {"A"}, ctx \in OptContexts :
  /\ requestContext[v] # ctx
  /\ setRequestContext(v, ctx)
  /\ UNCHANGED <<now, validations>> /\ CtxFrame

CtxEncrypt == \E v \in {"A"}, str \in ProbeStrings :
  /\ ~Issued
  /\ encryptToken(v, str, Undefined) /\ UNCHANGED now /\ OtherUnchanged

CtxGenerate == \E v \in {"A"} :
  /\ ~Issued /\ RoomIn(v)
  /\ generateSecurePaymentToken(v, PaymentData)
  /\ UNCHANGED now /\ OtherUnchanged

CtxDecrypt == \E v \in {"A"} :
  /\ origin.op = "generateSecurePaymentToken" /\ RoomIn(v)
  /\ \E p \in Intact(token) : decryptToken(v, p)
  /\ UNCHANGED now /\ OtherUnchanged

CtxValidate == \E v \in {"A"} :
  /\ origin.op = "generateSecurePaymentToken" /\ RoomIn(v)
  /\ validations <= MaxLog
  /\ \E p \in Intact(token) : validatePaymentToken(v, p)
  /\ validations' = validations + 1
  /\ UNCHANGED <<now, requestContext>> /\ CtxFrame

CtxGetAuditLogsSortsInPlace ==
  \E v \in {"A"}, action \in OptFilters :
    /\ lastOp' = Call("getAuditLogs", v,
                      [entries   |-> getAuditLogs(v, Undefined, Undefined,
                                                  action),
                       startDate |-> Undefined,
                       endDate   |-> Undefined,
                       action    |-> action],
                      FALSE, "none")
    /\ auditLogs' = [auditLogs EXCEPT ![v] = Sorted(@)]
    /\ UNCHANGED <<config, token, origin, previous, sink, now>>
    /\ OtherUnchanged

\* getAuditLogs(undefined, undefined, action)
CtxGetAuditLogs ==
  \E v \in {"A"}, action \in OptFilters :
    /\ lastOp' = Call("getAuditLogs", v,
                      [entries   |-> getAuditLogs(v, Undefined, Undefined,
                                                  action),
                       startDate |-> Undefined,
                       endDate   |-> Undefined,
                       action    |-> action],
                      FALSE, "none")
    /\ UNCHANGED <<config, auditLogs, token, origin, previous, sink, now>>
    /\ OtherUnchanged

\* Date.now() advances to the millisecond before, of or after the end of
\* the token's lifetime.
CtxTick == Issued /\ LifeTick

CtxNext ==
  \/ SetRequestContext
  \/ CtxEncrypt
  \/ CtxGenerate
  \/ CtxDecrypt
  \/ CtxValidate
  \/ CtxGetAuditLogs
  \/ CtxTick

CtxSpec == CtxInit /\ [][CtxNext]_vars

(***************************************************************************)
(* SecurityEnhancement, the colon-delimited variant: the plaintext is      *)
(* `token:additionalData:tenantId` or `token:tenantId`.  A string is a     *)
(* sequence of ":" and of pieces that hold no ":".  The vaults do not log. *)
(***************************************************************************)
ColonIterations == 10000

COLON == ":"

\* str.split(':'): the parts between the colons, at least one.
RECURSIVE Split(_)
Split(str) ==
  IF \A k \in DOMAIN str : str[k] # COLON THEN <<str>>
  ELSE Only({<<SubSeq(str, 1, k - 1)>> \o Split(SubSeq(str, k + 1, Len(str)))
             : k \in {CHOOSE k \in DOMAIN str :
                        /\ str[k] = COLON
                        /\ \A h \in 1 .. k - 1 : str[h] # COLON}})

\* Tokens, additional data and tenants handed to the vault.
ColonTokens ==
  UNION {[1 .. k -> {COLON, "a"}] : k \in 0 .. MaxStrLen}
    \cup {<<"token", COLON, "with", COLON, "multiple", COLON, "colons",
            COLON, "and", COLON, "data">>}
ColonAdditionalData ==
  {Undefined, JStr(<<>>),
   JStr(<<"additional", COLON, "data", COLON, "with", COLON, "colons">>)}
ColonTenants == {<<"tenant-test">>, <<"t", COLON, "1">>}

\* additionalData ? `${token}:${additionalData}:${tenantId}`
\*                : `${token}:${tenantId}`
DataToEncrypt(v, str, ad) ==
  IF Falsy(ad) THEN str \o <<COLON>> \o config[v].tenantId
  ELSE str \o <<COLON>> \o ad.v \o <<COLON>> \o config[v].tenantId

\* encryptToken(token, additionalData), lines 49-76
encryptTokenColon(v, str, ad) ==
  /\ \E r \in WordArrayRandom :
       LET key == PBKDF2(config[v].encryptionKey, r.salt, ColonIterations)
       IN  token' = [encrypted |-> AESEncrypt(DataToEncrypt(v, str, ad),
                                              key, r.iv),
                     iv        |-> HexStringify(r.iv),
                     salt      |-> HexStringify(r.salt),
                     timestamp |-> now]
  /\ origin' = [by |-> v, op |-> "encryptToken", s |-> str, ad |-> ad,
                data |-> NoPayment, at |-> now]
  /\ lastOp' = Call("encryptToken", v, Undefined, FALSE, "none")
  /\ previous' = token
  /\ UNCHANGED <<config, auditLogs, sink>>

\* decryptToken(), lines 99-114, when decryption gave dec: the value returned.
DecryptedColon(v, dec) ==
  IF ~dec.ok \/ dec.text = <<>> THEN JNull
  ELSE
    Only({
      IF Len(parts) < 2 \/ parts[Len(parts)] # config[v].tenantId
        THEN JNull
        ELSE JStr(parts[1])
      : parts \in {Split(dec.text)}})

\* decryptToken(encryptedToken), lines 82-119
decryptTokenColon(v, p) ==
  /\ \E dec \in AESDecrypt(p.tok.encrypted,
                           PBKDF2(config[v].encryptionKey,
                                  HexParse(p.tok.salt), ColonIterations),
                           HexParse(p.tok.iv)) :
       lastOp' = Call("decryptToken", v, DecryptedColon(v, dec), FALSE, p.kind)
  /\ UNCHANGED <<config, auditLogs, sink, token, origin, previous>>

\* Two vaults with the same key, of one tenant or of two.
ColonInit ==
  /\ \E tA \in ColonTenants, tB \in ColonTenants :
       config = [v \in Vaults |->
                   SecurityEnhancement("k1", IF v = "A" THEN tA ELSE tB,
                                       NULL, FALSE, "")]
  /\ auditLogs = [v \in Vaults |-> <<>>]
  /\ token = NoToken /\ origin = NoOrigin /\ lastOp = NoOp
  /\ previous = NoToken /\ sink = NoSink
  /\ CircuitBreakerInit(0, 0)
  /\ EnvInit
  /\ HistInit
  /\ RetryUnused
  /\ PaymentsUnused
  /\ AppUnused
  /\ AuxUnused

ColonEncrypt ==
  \E v \in {"A"}, str \in ColonTokens, ad \in ColonAdditionalData :
    /\ ~Issued
    /\ encryptTokenColon(v, str, ad) /\ UNCHANGED now /\ OtherUnchanged

ColonDecrypt == \E v \in Vaults :
  /\ Issued
  /\ \E p \in Intact(token) : decryptTokenColon(v, p)
  /\ UNCHANGED now /\ OtherUnchanged

ColonNext == ColonEncrypt \/ ColonDecrypt

ColonSpec == ColonInit /\ [][ColonNext]_vars

\* ---- PaymentService.createPaymentSession ----------------------------------
\* The requests callers make; two calls with the same request have the same
\* cache key `createPaymentSession:${JSON.stringify([request])}`.
Requests == {"r1", "r2"}

\* MemoryCache: no item under a key.
NoItem == [value |-> 0, expires |-> NULL]
Item(value, ttl) == [value |-> value, expires |-> now + ttl]

\* MemoryCache.get(key), lines 26-38: the value of an item that has not
\* expired; 0 stands for undefined.
CacheGet(items, key) ==
  IF items[key] = NoItem \/ now > items[key].expires THEN 0
  ELSE items[key].value

\* ... and the items afterwards: an expired item is deleted.
CacheAfterGet(items, key) ==
  IF items[key] # NoItem /\ now > items[key].expires
    THEN [items EXCEPT ![key] = NoItem]
    ELSE items

\* One createPaymentSession call: its request, how far it is, the POST made
\* for it (0: none) and the response returned (0: none).
Create(request, status, post, response) ==
  [request |-> request, status |-> status, post |-> post,
   response |-> response]

\* The variant of payments.ts:66-75 (not decorated) or the one of
\* payments.ts:184-192 (decorated); no call made yet.
SessionInit ==
  /\ decorated \in BOOLEAN
  /\ cache = [key \in Requests |-> NoItem]
  /\ posts = 0 /\ creates = <<>>
  /\ CircuitBreakerInit(0, 0)
  /\ EnvInit
  /\ HistInit
  /\ RetryUnused
  /\ VaultUnused
  /\ AppUnused
  /\ AuxUnused

SessionFrame ==
  UNCHANGED <<cbVars, pc, opCalls, recovered, histVars, rtVars, vaultVars,
              appVars, auxVars>>

\* createPaymentSession(request) up to its first await.  Decorated: a value
\* cached under the key is returned at once; otherwise, and when not
\* decorated, the request is POSTed to /v2/payments/sessions.
CreateCall(request) ==
  /\ Len(creates) < MaxCreates
  /\ \E hit \in {IF decorated THEN CacheGet(cache, request) ELSE 0} :
       IF hit # 0
         THEN /\ creates' = Append(creates, Create(request, "returned", 0, hit))
              /\ UNCHANGED <<posts, cache>>
         ELSE /\ posts' = posts + 1
              /\ creates' = Append(creates,
                                   Create(request, "awaiting", posts + 1, 0))
              /\ cache' = IF decorated THEN CacheAfterGet(cache, request)
                                       ELSE cache

CreatePaymentSession == \E request \in Requests :
  /\ CreateCall(request)
  /\ UNCHANGED <<decorated, now>> /\ SessionFrame

\* The POST of call i is answered: the server has created a session of its
\* own for this POST (it is named by the POST's number), response.data is
\* returned and, when decorated, stored under the key for CacheTtl.
PostResolve == \E i \in DOMAIN creates :
  /\ creates[i].status = "awaiting"
  /\ creates' = [creates EXCEPT ![i].status = "returned",
                                ![i].response = creates[i].post]
  /\ cache' = IF decorated
                THEN [cache EXCEPT ![creates[i].request] =
                                       Item(creates[i].post, CacheTtl)]
                ELSE cache
  /\ UNCHANGED <<decorated, posts, now>> /\ SessionFrame

\* The call fails (the POST and its retries failed): the error is thrown to
\* the caller and nothing is cached.
PostReject == \E i \in DOMAIN creates :
  /\ creates[i].status = "awaiting"
  /\ creates' = [creates EXCEPT ![i].status = "thrown"]
  /\ UNCHANGED <<decorated, cache, posts, now>> /\ SessionFrame

\* Date.now() advances: by a millisecond, or to the last millisecond of a
\* cached item's life, or to the millisecond after it.
SessionTick ==
  /\ \E t \in {now + 1}
            \cup UNION {{cache[key].expires, cache[key].expires + 1}
                          : key \in {k \in Requests : cache[k] # NoItem}} :
       /\ t > now
       /\ t = now + 1 => now < MaxTime
       /\ now' = t
  /\ UNCHANGED <<decorated, cache, posts, creates>> /\ SessionFrame

SessionNext ==
  \/ CreatePaymentSession
  \/ PostResolve
  \/ PostReject
  \/ SessionTick

SessionSpec == SessionInit /\ [][SessionNext]_vars

\* Two PaymentService instances, built on two HTTP clients (two API keys or
\* tenants).  @cached runs once, when the class is defined: both instances
\* call the one decorated method, which closes over the one MemoryCache
\* cacheManager.getCache('default') returned at that time.
PaymentServices == {"P1", "P2"}

\* The variant decorated with @cached; no call made yet.
ShareInit == SessionInit /\ decorated

ShareFrame ==
  UNCHANGED <<cbVars, pc, opCalls, recovered, histVars, rtVars, vaultVars,
              appVars, raceVars, ctxVars>>

\* service.createPaymentSession(request) up to its first await; the POST is
\* made with this.client of the instance the call is made on.
ShareCreate == \E service \in PaymentServices, request \in Requests :
  /\ CreateCall(request)
  /\ madeOn' = Append(madeOn, service)
  /\ UNCHANGED <<decorated, now>> /\ ShareFrame

\* Date.now() advances to the last millisecond of a cached item's life, or
\* to the millisecond after it.
ShareTick ==
  /\ \E key \in {k \in Requests : cache[k] # NoItem} :
       \E t \in {cache[key].expires, cache[key].expires + 1} :
         t > now /\ now' = t
  /\ UNCHANGED <<decorated, cache, posts, creates>> /\ SessionFrame

ShareNext ==
  \/ ShareCreate
  \/ PostResolve
  \/ PostReject
  \/ ShareTick

ShareSpec == ShareInit /\ [][ShareNext]_vars

(***************************************************************************)
(* MemoryCache on its own.  `cache` is the object: its Map as the sequence *)
(* of its entries in insertion order, and its ttl and maxSize.             *)
(***************************************************************************)
DefaultTtl     == 300000
DefaultMaxSize == 1000

\* Keys, with the empty string; options.ttl and options.maxSize (0: absent)
\* and the ttl argument of set (0: absent).
Keys        == {"", "a", "b"}
OptTtls     == {0, 1}
OptMaxSizes == {0, 1, 2}
SetTtls     == {0, 2}

\* constructor(options), lines 21-24
MemoryCache(ttl, maxSize) ==
  [cache   |-> <<>>,
   ttl     |-> IF ttl # 0 THEN ttl ELSE DefaultTtl,
   maxSize |-> IF maxSize # 0 THEN maxSize ELSE DefaultMaxSize]

\* Map.has, Map.delete and Map.set on the sequence of entries: a deleted
\* entry leaves, an entry set under a key the Map holds keeps its place, an
\* entry under a new key goes to the end.
MapHas(entries, key) == \E k \in DOMAIN entries : entries[k].key = key
MapDelete(entries, key) == SelectSeq(entries, LAMBDA e : e.key # key)
MapSet(entries, key, item) ==
  IF MapHas(entries, key)
    THEN [k \in DOMAIN entries |->
            IF entries[k].key = key THEN item ELSE entries[k]]
    ELSE Append(entries, item)

\* size(), lines 68-70
size == Len(cache.cache)

\* get(key), lines 26-39: an expired item is deleted.
MemGet == \E key \in Keys :
  /\ cache' = [cache EXCEPT !.cache =
                 SelectSeq(@, LAMBDA e : ~(e.key = key /\ now > e.expires))]
  /\ UNCHANGED <<decorated, posts, creates, now>> /\ SessionFrame

\* set(key, value, ttl), lines 41-58: `if (oldestKey)` is false for the
\* empty string.
MemSet == \E key \in Keys, ttl \in SetTtls :
  LET expires == now + (IF ttl # 0 THEN ttl ELSE cache.ttl)
      entries == cache.cache
      room    == IF Len(entries) >= cache.maxSize /\ entries[1].key # ""
                   THEN MapDelete(entries, entries[1].key)
                   ELSE entries
  IN  /\ cache' = [cache EXCEPT !.cache =
                     MapSet(room, key, [key |-> key, value |-> 1,
                                        expires |-> expires, created |-> now])]
      /\ UNCHANGED <<decorated, posts, creates, now>> /\ SessionFrame

\* delete(key), lines 60-62
MemDelete == \E key \in Keys :
  /\ MapHas(cache.cache, key)
  /\ cache' = [cache EXCEPT !.cache = MapDelete(@, key)]
  /\ UNCHANGED <<decorated, posts, creates, now>> /\ SessionFrame

\* clear(), lines 64-66
MemClear ==
  /\ cache.cache # <<>>
  /\ cache' = [cache EXCEPT !.cache = <<>>]
  /\ UNCHANGED <<decorated, posts, creates, now>> /\ SessionFrame

\* cleanup(), lines 72-79
MemCleanup ==
  /\ \E k \in DOMAIN cache.cache : now > cache.cache[k].expires
  /\ cache' = [cache EXCEPT !.cache =
                 SelectSeq(@, LAMBDA e : ~(now > e.expires))]
  /\ UNCHANGED <<decorated, posts, creates, now>> /\ SessionFrame

\* Date.now() advances.
MemTick ==
  /\ now < MaxTime
  /\ now' = now + 1
  /\ UNCHANGED <<decorated, cache, posts, creates>> /\ SessionFrame

MemInit ==
  /\ \E ttl \in OptTtls, maxSize \in OptMaxSizes :
       cache = MemoryCache(ttl, maxSize)
  /\ decorated = FALSE /\ posts = 0 /\ creates = <<>>
  /\ CircuitBreakerInit(0, 0)
  /\ EnvInit
  /\ HistInit
  /\ RetryUnused
  /\ VaultUnused
  /\ AppUnused
  /\ AuxUnused

MemNext ==
  \/ MemGet
  \/ MemSet
  \/ MemDelete
  \/ MemClear
  \/ MemCleanup
  \/ MemTick

MemSpec == MemInit /\ [][MemNext]_vars

(***************************************************************************)
(* ShoraSDK: the constructor's resolution of the API base URL.  A string   *)
(* property is absent, undefined or a string; process.env holds strings.   *)
(***************************************************************************)
DEFAULT_BASE_URLS ==
  [sandbox    |-> "https://shora-core.onrender.com",
   staging    |-> "https://shora-core.onrender.com",
   production |-> "https://api.shora.cloud"]

\* A value in a condition: undefined and '' are falsy.
Truthy(p) == p.t = "str" /\ p.s # ""

\* config.baseUrl as a caller can hand it in.
OptBaseUrls ==
  {NoProp, UndefProp, StrProp(""), StrProp("https://custom.example.com")}
\* config.environment
OptEnvironments ==
  {NoProp, UndefProp} \cup {StrProp(e) : e \in DOMAIN DEFAULT_BASE_URLS}
\* process.env.SHORA_API_BASE_URL: unset, empty or a URL
OptEnvBases == {NoProp, StrProp(""), StrProp("https://env.example.com")}

ShoraConfigs == [baseUrl : OptBaseUrls, environment : OptEnvironments]

\* config.environment ?? 'production'
EnvironmentOf(cfg) ==
  IF cfg.environment.t = "undefined" THEN "production"
  ELSE cfg.environment.s

RequiresExplicit == "requires explicit baseUrl configuration"

\* Lines 96-116: resolvedBase, or the error thrown.
ResolvedBase(cfg, envBase) ==
  IF Truthy(cfg.baseUrl)
    THEN [thrown |-> FALSE, message |-> "", base |-> cfg.baseUrl.s]
  ELSE IF Truthy(envBase)
    THEN [thrown |-> FALSE, message |-> "", base |-> envBase.s]
  ELSE IF EnvironmentOf(cfg) = "production"
    THEN [thrown |-> FALSE, message |-> "",
          base |-> DEFAULT_BASE_URLS.production]
  ELSE [thrown |-> TRUE, message |-> RequiresExplicit, base |-> ""]

\* { baseUrl: resolvedBase, timeout: 30000, ...config }.baseUrl: an own
\* property of config, whatever its value, replaces the one written first.
Spread(first, cfg) ==
  IF cfg.baseUrl.own THEN cfg.baseUrl ELSE StrProp(first)

\* new ShoraSDK(config, httpClient) with SHORA_API_BASE_URL = envBase: the
\* error thrown, or this.config.baseUrl and the baseURL the client of the
\* SDK was created with (none for a client handed in).
ShoraSDK(cfg, httpClient, envBase) ==
  LET r == ResolvedBase(cfg, envBase)
      own == [built |-> TRUE, thrown |-> r.thrown, message |-> r.message,
              given |-> cfg, envBase |-> envBase,
              httpClient |-> httpClient,
              baseUrl |-> NoProp, baseURL |-> NoProp]
  IN  IF r.thrown THEN own
      ELSE IF r.base = ""
        THEN [own EXCEPT !.thrown = TRUE, !.message = "No baseUrl configured"]
      ELSE [own EXCEPT
              !.baseUrl = Spread(r.base, cfg),
              !.baseURL = IF httpClient THEN NoProp
                          ELSE Spread(r.base, cfg)]

SdkInit ==
  /\ processEnv \in OptEnvBases
  /\ sdk = NoSdk
  /\ rateLimitConfig = [windowMs |-> 0, max |-> 0] /\ checks = <<>>
  /\ AuxUnused
  /\ CircuitBreakerInit(0, 0)
  /\ EnvInit
  /\ HistInit
  /\ RetryUnused
  /\ VaultUnused
  /\ PaymentsUnused

\* process.env.SHORA_API_BASE_URL = ... / delete process.env....
SetEnv == \E e \in OptEnvBases :
  /\ processEnv' = e
  /\ UNCHANGED <<sdk, rateLimitConfig, checks>>
  /\ UNCHANGED <<cbVars, envVars, histVars, rtVars, vaultVars, payVars,
                 auxVars>>

Construct == \E cfg \in ShoraConfigs, httpClient \in BOOLEAN :
  /\ sdk' = ShoraSDK(cfg, httpClient, processEnv)
  /\ UNCHANGED <<processEnv, rateLimitConfig, checks>>
  /\ UNCHANGED <<cbVars, envVars, histVars, rtVars, vaultVars, payVars,
                 auxVars>>

SdkNext == SetEnv \/ Construct

SdkSpec == SdkInit /\ [][SdkNext]_vars

(***************************************************************************)
(* SecurityManager.checkRateLimit.                                         *)
(***************************************************************************)
Identifiers == {"ip1", "ip2"}

\* config.rateLimit as handed to the constructor; max 0 stands for none.
OptRateLimits ==
  {[windowMs |-> 0, max |-> 0], [windowMs |-> 1, max |-> 1],
   [windowMs |-> 2, max |-> 2]}

\* config.rateLimit || { windowMs: 15 * 60 * 1000, max: 100, ... }
SecurityManager(optRateLimit) ==
  IF optRateLimit.max = 0
    THEN [windowMs |-> DefaultWindowMs, max |-> DefaultMax]
    ELSE optRateLimit

\* checkRateLimit(identifier, tier): the object returned.
checkRateLimit(identifier) ==
  [identifier |-> identifier, at |-> now,
   allowed    |-> TRUE,
   remaining  |-> rateLimitConfig.max - 1,
   resetTime  |-> now + rateLimitConfig.windowMs]

RateInit ==
  /\ \E o \in OptRateLimits : rateLimitConfig = SecurityManager(o)
  /\ checks = <<>>
  /\ processEnv = NoProp /\ sdk = NoSdk
  /\ AuxUnused
  /\ CircuitBreakerInit(0, 0)
  /\ EnvInit
  /\ HistInit
  /\ RetryUnused
  /\ VaultUnused
  /\ PaymentsUnused

CheckRateLimit == \E identifier \in Identifiers :
  /\ Len(checks) < MaxChecks
  /\ checks' = Append(checks, checkRateLimit(identifier))
  /\ UNCHANGED <<processEnv, sdk, rateLimitConfig>>
  /\ UNCHANGED <<cbVars, envVars, histVars, rtVars, vaultVars, payVars,
                 auxVars>>

RateTick ==
  /\ now < MaxTime
  /\ now' = now + 1
  /\ UNCHANGED <<cbVars, pc, opCalls, recovered, histVars, rtVars, vaultVars,
                 payVars, appVars, auxVars>>

RateNext == CheckRateLimit \/ RateTick

RateSpec == RateInit /\ [][RateNext]_vars

(***************************************************************************)
(* Interleaved execute calls on one breaker, with the state each running   *)
(* call was admitted in kept as history.                                   *)
(***************************************************************************)
RaceInit ==
  /\ \E th \in OptFailureThresholds, rt \in OptResetTimeouts :
       CircuitBreakerInit(th, rt)
  /\ EnvInit
  /\ HistInit
  /\ RetryUnused
  /\ VaultUnused
  /\ PaymentsUnused
  /\ AppUnused
  /\ AuxUnused

\* execute(fn) up to `await fn(...args)`: a call that is not rejected runs
\* from the state the breaker has when fn is invoked.
RaceExecute == \E c \in Callers :
  /\ metrics.totalRequests < MaxRequests /\ FreeSlot(c) /\ execute(c)
  /\ admittedIn' = [admittedIn EXCEPT
                      ![c] = IF pc'[c] = "running" THEN state' ELSE "none"]
  /\ lastAdmission' = "none"
  /\ UNCHANGED <<rtVars, vaultVars, payVars, appVars, ctxVars, madeOn>>

\* The success of an awaited call skips onSuccess's HALF_OPEN branch when
\* the call was admitted in another state.
RaceSucceedAdmittedOnly == \E c \in Callers :
  /\ pc[c] = "running"
  /\ IF state = "HALF_OPEN" /\ admittedIn[c] # "HALF_OPEN"
       THEN /\ failureCount' = 0
            /\ metrics' = [metrics EXCEPT !.successfulRequests = @ + 1]
            /\ UNCHANGED <<state, successCount, lastFailureTime, nextAttempt>>
       ELSE onSuccess
  /\ pc' = [pc EXCEPT ![c] = "idle"]
  /\ lastEv' = Event("success", c)
  /\ consecFailures' = 0
  /\ hoRun' = IF state = "HALF_OPEN" THEN hoRun + 1 ELSE hoRun
  /\ admittedIn' = [admittedIn EXCEPT ![c] = "none"]
  /\ lastAdmission' = admittedIn[c]
  /\ UNCHANGED <<failureThreshold, resetTimeout, now, opCalls, recovered>>
  /\ UNCHANGED <<rtVars, vaultVars, payVars, appVars, ctxVars, madeOn>>

\* `const result = await fn(...args); this.onSuccess()`
RaceSucceed == \E c \in Callers :
  /\ CompleteSuccess(c)
  /\ admittedIn' = [admittedIn EXCEPT ![c] = "none"]
  /\ lastAdmission' = admittedIn[c]
  /\ UNCHANGED <<rtVars, vaultVars, payVars, appVars, ctxVars, madeOn>>

\* `catch (error) { this.onFailure(); throw error }`
RaceFail == \E c \in Callers :
  /\ ~recovered /\ now <= MaxTime /\ CompleteFailure(c)
  /\ admittedIn' = [admittedIn EXCEPT ![c] = "none"]
  /\ lastAdmission' = admittedIn[c]
  /\ UNCHANGED <<rtVars, vaultVars, payVars, appVars, ctxVars, madeOn>>

RaceAdvance == \E d \in {now + 1, nextAttempt - 1, nextAttempt} :
  /\ Tick(d)
  /\ UNCHANGED <<rtVars, vaultVars, payVars, appVars, auxVars>>

RaceNext == RaceExecute \/ RaceSucceed \/ RaceFail \/ RaceAdvance \/ Recover

RaceSpec == RaceInit /\ [][RaceNext]_vars

(***************************************************************************)
(* C1: once failureThreshold operation failures have completed in a row    *)
(* (no success and no reset between them), the breaker is OPEN right after *)
(* the last of them and nextAttempt is that failure's time plus            *)
(* resetTimeout.                                                           *)
(***************************************************************************)
C1_ThresholdOpens ==
  (lastEv.kind = "failure" /\ consecFailures >= failureThreshold)
    => (state = "OPEN" /\ nextAttempt = lastEv.at + resetTimeout)

C1_Witness ==
  /\ lastEv.kind = "failure" /\ lastEv.pre = "CLOSED"
  /\ failureThreshold = 2 /\ consecFailures = 2
  /\ state = "OPEN"

(***************************************************************************)
(* C2: the wrapped operation is never invoked by a step taken while the    *)
(* breaker is OPEN and now < nextAttempt; an execute call made then is     *)
(* rejected and leaves the invocation count unchanged, under every         *)
(* interleaving of the concurrent calls.                                   *)
(***************************************************************************)
C2_NoInvocationWhileOpen ==
  /\ [][opCalls' # opCalls => ~(state = "OPEN" /\ now < nextAttempt)]_vars
  /\ [][(state = "OPEN" /\ now < nextAttempt
          /\ metrics'.totalRequests # metrics.totalRequests)
        => (lastEv'.kind = "reject" /\ opCalls' = opCalls /\ pc' = pc)]_vars

C2_Witness ==
  /\ lastEv.kind = "reject" /\ lastEv.at + 1 = lastEv.preNext
  /\ opCalls = lastEv.preCalls /\ opCalls >= 2
  /\ \E c \in Callers : pc[c] = "running"

(***************************************************************************)
(* C3: whenever an operation failure completes while the breaker is        *)
(* HALF_OPEN, the breaker is OPEN right afterwards with nextAttempt set to *)
(* that failure's time plus resetTimeout.                                  *)
(***************************************************************************)
C3_HalfOpenFailureReopens ==
  (lastEv.kind = "failure" /\ lastEv.pre = "HALF_OPEN")
    => (state = "OPEN" /\ nextAttempt = lastEv.at + resetTimeout)

(***************************************************************************)
(* C4: a success completing in HALF_OPEN closes the breaker exactly when   *)
(* it is the third success in a row, with no failure between, since        *)
(* HALF_OPEN was entered; failureCount is 0 at that moment.                *)
(***************************************************************************)
C4_ClosesAfterThreeConsecutive ==
  (lastEv.kind = "success" /\ lastEv.pre = "HALF_OPEN")
    => /\ (state = "CLOSED") <=> (hoRun >= HalfOpenSuccesses)
       /\ state = "CLOSED" => failureCount = 0

(***************************************************************************)
(* C5: an execute call that finds the breaker OPEN at a time               *)
(* now >= nextAttempt (boundary included) is admitted: it leaves the       *)
(* breaker HALF_OPEN with successCount 0 and invokes the operation; only   *)
(* calls made before nextAttempt are rejected.  So, under fair scheduling, *)
(* an OPEN breaker whose dependency has recovered becomes CLOSED.          *)
(***************************************************************************)
C5_AdmitsAtNextAttempt ==
  /\ lastEv.kind = "reject" => lastEv.at < lastEv.preNext
  /\ (lastEv.kind = "admit" /\ lastEv.pre = "OPEN")
       => /\ lastEv.at >= lastEv.preNext
          /\ state = "HALF_OPEN" /\ successCount = 0
          /\ opCalls = lastEv.preCalls + 1

C5_OpenRecovers ==
  /\ []C5_AdmitsAtNextAttempt
  /\ (recovered /\ state = "OPEN") ~> (state = "CLOSED")

C5_Witness ==
  /\ lastEv.kind = "admit" /\ lastEv.pre = "OPEN"
  /\ lastEv.at = lastEv.preNext
  /\ recovered

\* Vault b is another vault than the one that issued the token, with the
\* same encryptionKey and the same KDF iterations, under another tenantId.
OtherTenantOf(b) ==
  /\ Issued /\ b # origin.by
  /\ config[b].encryptionKey = config[origin.by].encryptionKey
  /\ Iterations(b) = Iterations(origin.by)
  /\ config[b].tenantId # config[origin.by].tenantId

(***************************************************************************)
(* C6: tenant isolation.  A vault with the issuing vault's encryptionKey   *)
(* and KDF iterations but another tenantId gets null from decryptToken of  *)
(* the token, and from validatePaymentToken a result that is not valid and *)
(* carries no data: nothing of the token's content is returned.            *)
(***************************************************************************)
C6_OtherTenantGetsNothing ==
  \A b \in Vaults :
    (OtherTenantOf(b) /\ lastOp.by = b)
      => /\ lastOp.op = "decryptToken" => lastOp.result = JNull
         /\ lastOp.op = "validatePaymentToken"
              => ~lastOp.result.valid /\ lastOp.result.data = Undefined

C6_Witness ==
  /\ origin.op = "encryptToken" /\ Len(origin.s) > 0
  /\ OtherTenantOf(lastOp.by)
  /\ lastOp.op = "decryptToken" /\ lastOp.result = JNull

(***************************************************************************)
(* C7: round trip.  decryptToken, by the vault that made it, of the token  *)
(* encryptToken(s, additionalData) made from a non-empty string s returns  *)
(* exactly s, whatever characters s and additionalData contain.            *)
(***************************************************************************)
C7_RoundTrip ==
  (/\ origin.op = "encryptToken" /\ Len(origin.s) > 0
   /\ lastOp.op = "decryptToken" /\ lastOp.by = origin.by)
    => lastOp.result = JStr(origin.s)

C7_Witness ==
  /\ origin.op = "encryptToken"
  /\ \E i, j \in DOMAIN origin.s : origin.s[i] = ":" /\ origin.s[j] = QUOTE
  /\ origin.ad = JStr(<<QUOTE, ":">>)
  /\ lastOp.op = "decryptToken" /\ lastOp.by = origin.by
  /\ lastOp.result = JStr(origin.s)

(***************************************************************************)
(* C8: for every configured maxRetries >= 0, 0 included, a call of         *)
(* RetryManager.execute whose fn fails every time invokes fn exactly       *)
(* maxRetries + 1 times and then rejects with the failure of the last      *)
(* invocation.                                                             *)
(***************************************************************************)
C8_AlwaysFailingRunsMaxRetriesPlusOne ==
  rpc = "thrown"
    => /\ Len(fnLog) = optMaxRetries + 1
       /\ settled = [kind |-> fnLog[Len(fnLog)].kind, of |-> Len(fnLog)]

(***************************************************************************)
(* C9: when an invocation of fn succeeds, it is the last one:              *)
(* RetryManager.execute has returned that invocation's result, fn was      *)
(* invoked exactly N times for the N-th invocation succeeding              *)
(* (N <= maxRetries + 1), and only the N - 1 sleeps between the            *)
(* invocations took place.                                                 *)
(***************************************************************************)
C9_ReturnsFirstSuccess ==
  /\ \A i \in DOMAIN fnLog :
       fnLog[i].kind = "result"
         => /\ rpc = "returned" /\ settled = Result(i)
            /\ i = Len(fnLog) /\ sleeps = i - 1
            /\ i <= maxRetries + 1
  /\ rpc = "returned"
       => Len(fnLog) > 0 /\ fnLog[Len(fnLog)].kind = "result"

C9_Witness ==
  /\ rpc = "returned" /\ Len(fnLog) = 3 /\ sleeps = 2
  /\ settled = Result(3)
  /\ fnLog[1].kind = "OpError" /\ fnLog[2].kind = "OpError"

(***************************************************************************)
(* C10: in retry(circuitBreaker(op)), when an attempt's failure opens the  *)
(* breaker and every later attempt of the sequence is made before          *)
(* nextAttempt, each later attempt is rejected by the breaker without      *)
(* invoking op, each rejection uses up one attempt and its sleep, and the  *)
(* sequence ends after maxRetries + 1 attempts with the circuit-open       *)
(* error.                                                                  *)
(***************************************************************************)
LaterAttempts(k) == {j \in DOMAIN fnLog : j > k}

OpenedAndStayedEarly(k) ==
  /\ createPaymentSession
  /\ fnLog[k].opened
  /\ \A j \in LaterAttempts(k) : fnLog[j].early

RemainingRejected(k) ==
  \A j \in LaterAttempts(k) :
    fnLog[j].kind = "CircuitOpen" /\ fnLog[j].calls = fnLog[k].calls

EndsWithCircuitOpen ==
  rpc \in {"returned", "thrown"}
    => /\ rpc = "thrown" /\ settled.kind = "CircuitOpen"
       /\ Len(fnLog) = maxRetries + 1
       /\ sleeps = maxRetries

C10_OpenBurnsRetries ==
  \A k \in DOMAIN fnLog :
    OpenedAndStayedEarly(k) => RemainingRejected(k) /\ EndsWithCircuitOpen

(***************************************************************************)
(* C10, amended: the same, for a breaker that opens on an attempt other    *)
(* than the last one of the sequence; when the last attempt's failure      *)
(* opens it, the caller receives that failure.                             *)
(***************************************************************************)
C10_OpenBeforeLastBurnsRetries ==
  \A k \in DOMAIN fnLog :
    OpenedAndStayedEarly(k)
      => /\ RemainingRejected(k)
         /\ IF k <= maxRetries
              THEN EndsWithCircuitOpen
              ELSE rpc = "thrown" /\ settled = OpError(k)
                   /\ Len(fnLog) = maxRetries + 1

C10_Witness ==
  /\ rpc = "thrown" /\ settled.kind = "CircuitOpen"
  /\ Len(fnLog) = 4 /\ sleeps = 3
  /\ fnLog[2].opened /\ OpenedAndStayedEarly(2)
  /\ opCalls = fnLog[2].calls


CarriesPayment(data, payment) ==
  /\ Get(data, K_amount) = JNum(payment.amount)
  /\ Get(data, K_currency) = JStr(payment.currency)
  /\ Get(data, K_userId) = JStr(payment.userId)
  /\ Get(data, K_agentId) = payment.agentId

ValidatedByIssuer ==
  /\ origin.op = "generateSecurePaymentToken"
  /\ lastOp.op = "validatePaymentToken" /\ lastOp.by = origin.by

C12_ValidUntilExpiry ==
  ValidatedByIssuer
    => IF lastOp.at <= origin.at + TokenLifetime
         THEN /\ lastOp.result.valid
              /\ CarriesPayment(lastOp.result.data, origin.data)
         ELSE lastOp.result =
                [valid |-> FALSE, error |-> "Token expired", data |-> Undefined]

\* A token issued after the clock had advanced, for a payment made by an
\* agent, is validated one millisecond after its lifetime and is expired.
C12_Witness ==
  /\ ValidatedByIssuer
  /\ origin.at > 0 /\ origin.data.agentId # Undefined
  /\ lastOp.at = origin.at + TokenLifetime + 1
  /\ lastOp.result.error = "Token expired"

(***************************************************************************)
(* C13: to a caller who sees only return values a token of another tenant   *)
(* and a corrupted ciphertext are the same: decryptToken returns null and   *)
(* validatePaymentToken returns {valid: false, error: "Invalid token"} for  *)
(* both; in the audit log of a vault that logs, the two are told apart.     *)
(***************************************************************************)
\* The last call handed vault lastOp.by a token to decrypt.
Probed == lastOp.op \in {"decryptToken", "validatePaymentToken"}

\* ... the token as returned by a vault of another tenant with the same key
\* and iterations, so that the envelope decrypts and its tenantId differs.
OfOtherTenant ==
  /\ Probed /\ lastOp.probe = "intact"
  /\ config[origin.by].encryptionKey = config[lastOp.by].encryptionKey
  /\ config[origin.by].tenantId # config[lastOp.by].tenantId

\* ... a token whose ciphertext was corrupted.
OfCorruptedCiphertext == Probed /\ lastOp.probe = "corrupted"

ReturnsNoData ==
  /\ lastOp.op = "decryptToken" => lastOp.result = JNull
  /\ lastOp.op = "validatePaymentToken"
       => lastOp.result =
            [valid |-> FALSE, error |-> "Invalid token", data |-> Undefined]

\* The audit entry decryptToken wrote in the last call.
DecryptEntry ==
  LET logs == auditLogs[lastOp.by]
  IN  IF lastOp.op = "decryptToken" THEN logs[Len(logs)]
                                    ELSE logs[Len(logs) - 1]

TenantMismatchLogged ==
  /\ DecryptEntry.action = "decrypt_failed"
  /\ DecryptEntry.details = <<"Token decryption failed - tenant mismatch", "">>

C13_ReturnValuesAlike ==
  (OfOtherTenant \/ OfCorruptedCiphertext) => ReturnsNoData

C13_AlikeToCallersApartInAuditLog ==
  /\ C13_ReturnValuesAlike
  /\ (Probed /\ config[lastOp.by].enableAuditLogging)
       => /\ OfOtherTenant => TenantMismatchLogged
          /\ OfCorruptedCiphertext => ~TenantMismatchLogged

C15_BackoffMonotone ==
  \A att \in 0 .. maxRetries - 1 :
    /\ calculateDelay(att, 0) <= maxDelay
    /\ att > 0 => calculateDelay(att - 1, 0) <= calculateDelay(att, 0)

\* A call sleeps before its third attempt; the delay has grown from the
\* first retry's and has reached maxDelay.
C15_Witness ==
  /\ rpc = "sleeping" /\ attempt >= 1 /\ attempt <= maxRetries - 1
  /\ calculateDelay(0, 0) < calculateDelay(attempt, 0)
  /\ calculateDelay(attempt, 0) = maxDelay
  /\ baseDelay * Pow(backoffMultiplier, attempt) > maxDelay

(***************************************************************************)
(* C16: after any sequence of logAudit calls with the actions "a" and "b",  *)
(* getAuditLogs(undefined, undefined, "a") returns exactly the logged       *)
(* entries whose action is "a", none missing and none extra, ordered by     *)
(* timestamp from newest to oldest.                                         *)
(***************************************************************************)
Count(seq, e) == Cardinality({i \in DOMAIN seq : seq[i] = e})

\* The last call was getAuditLogs(undefined, undefined, "a").
ReadActionA ==
  /\ lastOp.op = "getAuditLogs"
  /\ lastOp.result.startDate = Undefined /\ lastOp.result.endDate = Undefined
  /\ lastOp.result.action.t = "str" /\ lastOp.result.action.v = "a"

C16_ExactlyTheAEntriesNewestFirst ==
  ReadActionA =>
    LET returned == lastOp.result.entries
        logged   == SelectSeq(auditLogs[lastOp.by], LAMBDA log : log.action = "a")
    IN  /\ Len(returned) = Len(logged)
        /\ \A i \in DOMAIN logged : Count(returned, logged[i]) = Count(logged, logged[i])
        /\ \A i, j \in DOMAIN returned :
             i < j => getTime(returned[i].timestamp) >= getTime(returned[j].timestamp)

\* Two "a" entries of different times and a "b" entry between them were
\* logged; the two "a" entries came back.
C16_Witness ==
  /\ ReadActionA
  /\ Len(lastOp.result.entries) = 2
  /\ getTime(lastOp.result.entries[1].timestamp)
       > getTime(lastOp.result.entries[2].timestamp)
  /\ Len(auditLogs[lastOp.by]) = 3
  /\ auditLogs[lastOp.by][2].action = "b"

(***************************************************************************)
(* C17: every entry in a vault's audit log carries that vault's tenantId,   *)
(* and getAuditLogs never returns an entry logged by a vault instance of a  *)
(* different tenant, however the operations on the vaults interleave.       *)
(***************************************************************************)
C17_LogsKeptPerTenant ==
  /\ \A v \in Vaults : \A i \in DOMAIN auditLogs[v] :
       auditLogs[v][i].tenantId = config[v].tenantId
  /\ lastOp.op = "getAuditLogs" =>
       \A i \in DOMAIN lastOp.result.entries :
         /\ Count(auditLogs[lastOp.by], lastOp.result.entries[i]) > 0
         /\ \A v \in Vaults :
              config[v].tenantId # config[lastOp.by].tenantId
                => Count(auditLogs[v], lastOp.result.entries[i]) = 0

\* Both vaults, of different tenants, logged "a" at the same time; the
\* second one's log was read and its own entry came back.
C17_Witness ==
  /\ lastOp.op = "getAuditLogs" /\ lastOp.by = "B"
  /\ config["A"].tenantId # config["B"].tenantId
  /\ Len(lastOp.result.entries) = 1
  /\ \E i \in DOMAIN auditLogs["A"] :
       /\ auditLogs["A"][i].action = lastOp.result.entries[1].action
       /\ auditLogs["A"][i].timestamp = lastOp.result.entries[1].timestamp

(***************************************************************************)
(* C18: with enableAuditLogging false or unset no operation of a vault      *)
(* (logAudit, decryptToken, generateSecurePaymentToken,                     *)
(* validatePaymentToken) appends to its audit log or forwards anything to   *)
(* the remote sink; getAuditLogs() is empty after any sequence of them.     *)
(***************************************************************************)
C18_NoLoggingWhenDisabled ==
  /\ \A v \in Vaults :
       ~config[v].enableAuditLogging
         => /\ auditLogs[v] = <<>>
            /\ getAuditLogs(v, Undefined, Undefined, Undefined) = <<>>
  /\ (\A v \in Vaults : ~config[v].enableAuditLogging) => sink = NoSink

\* Vaults without audit logging but with an endpoint configured: a payment
\* token was generated and then validated by the vault that issued it.
C18_Witness ==
  /\ \A v \in Vaults :
       ~config[v].enableAuditLogging /\ config[v].auditLogEndpoint # ""
  /\ origin.op = "generateSecurePaymentToken"
  /\ lastOp.op = "validatePaymentToken" /\ lastOp.by = origin.by
  /\ lastOp.probe = "intact" /\ lastOp.result.valid

(***************************************************************************)
(* C19: when auditLogEndpoint is configured and forwarding an entry fails,  *)
(* the operation that logged the entry has returned its normal result       *)
(* without raising and the entry stays in the audit log: the outcome of     *)
(* the forwarding changes neither a result nor a log.                       *)
(***************************************************************************)
ForwardingSettled ==
  sink'.inFlight < sink.inFlight

C19_ForwardingFailureSwallowed ==
  [][ForwardingSettled
       => /\ auditLogs' = auditLogs
          /\ lastOp' = lastOp
          /\ ~lastOp'.raised]_vars

\* The POST of the entry that a successful decryptToken logged has failed:
\* the string that was encrypted is the result and the entry is in the log.
C19_Witness ==
  /\ sink.warned > 0
  /\ lastOp.op = "decryptToken" /\ lastOp.result = JStr(origin.s)
  /\ ~lastOp.raised
  /\ Len(auditLogs[lastOp.by]) = 1
  /\ auditLogs[lastOp.by][1].action = "decrypt_success"

(***************************************************************************)
(* C20: repeated createPaymentSession calls create distinct sessions.       *)
(* Every call that returns has made a POST to /v2/payments/sessions of its  *)
(* own and returns the response to that POST, also when two calls carry     *)
(* the same request within 5 minutes.                                       *)
(***************************************************************************)
C20_EveryCallCreatesItsSession ==
  /\ \A i \in DOMAIN creates :
       creates[i].status = "returned"
         => creates[i].post # 0 /\ creates[i].response = creates[i].post
  /\ \A i, j \in DOMAIN creates :
       (i # j /\ creates[i].status = "returned"
              /\ creates[j].status = "returned")
         => creates[i].response # creates[j].response

\* The same, for the variant that is not decorated only.
C20_PlainVariantPostsEveryCall ==
  ~decorated => C20_EveryCallCreatesItsSession


(***************************************************************************)
(* C23: a success completing while the breaker is CLOSED leaves            *)
(* failureCount at 0, and a failure completing while it is CLOSED leaves   *)
(* it CLOSED as long as fewer than failureThreshold failures have          *)
(* completed since the last success (or reset); a breaker steps from       *)
(* CLOSED to OPEN only when such a run has reached failureThreshold,       *)
(* however many failures there were in total.                              *)
(***************************************************************************)
C23_ShortRunsNeverOpen ==
  /\ (lastEv.kind = "success" /\ lastEv.pre = "CLOSED")
       => (failureCount = 0 /\ state = "CLOSED")
  /\ (lastEv.kind = "failure" /\ lastEv.pre = "CLOSED"
        /\ consecFailures < failureThreshold)
       => (state = "CLOSED" /\ failureCount = consecFailures)
  /\ (metrics.circuitOpened = 0 /\ consecFailures < failureThreshold)
       => state = "CLOSED"

\* Three failures in total with a threshold of two, each followed by a
\* success: the breaker has never opened.
C23_Witness ==
  /\ failureThreshold = 2 /\ metrics.failedRequests >= 3
  /\ metrics.circuitOpened = 0 /\ state = "CLOSED"
  /\ lastEv.kind = "failure" /\ consecFailures = 1

(***************************************************************************)
(* C24: an execute call rejected because the breaker is OPEN before        *)
(* nextAttempt is not counted as a failure: the step adds one to           *)
(* totalRequests and leaves state, failureCount, lastFailureTime,          *)
(* nextAttempt, successCount and the failedRequests, successfulRequests,   *)
(* circuitOpened and circuitClosed counters as they were, so rejections    *)
(* never move the end of the cool-down.                                    *)
(***************************************************************************)
Rejecting ==
  /\ metrics'.totalRequests # metrics.totalRequests
  /\ lastEv'.kind = "reject"

C24_RejectionIsNoFailure ==
  [][Rejecting
      => /\ metrics' = [metrics EXCEPT !.totalRequests = @ + 1]
         /\ UNCHANGED <<state, failureCount, lastFailureTime, nextAttempt,
                        successCount, opCalls, consecFailures>>]_vars

\* Two calls have been rejected during one cool-down, the last of them at
\* the last instant before nextAttempt.
C24_Witness ==
  /\ lastEv.kind = "reject" /\ lastEv.at + 1 = lastEv.preNext
  /\ metrics.totalRequests >= opCalls + 2
  /\ metrics.circuitOpened = 1
  /\ state = "OPEN" /\ nextAttempt = lastFailureTime + resetTimeout

(***************************************************************************)
(* C25: reset(), called in any state, leaves the breaker CLOSED with       *)
(* failureCount 0, lastFailureTime and nextAttempt null and successCount   *)
(* 0; the execute call that follows invokes the operation; and a failure   *)
(* opens the CLOSED breaker only when failureThreshold failures have       *)
(* completed in a row since the last success or reset.                     *)
(***************************************************************************)
AfterReset ==
  /\ lastEv.kind = "reset"
       => /\ state = "CLOSED" /\ failureCount = 0 /\ successCount = 0
          /\ lastFailureTime = NULL /\ nextAttempt = NULL
  /\ (lastEv.kind = "failure" /\ lastEv.pre = "CLOSED" /\ state = "OPEN")
       => consecFailures >= failureThreshold

C25_ResetClosesFromAnyState ==
  /\ []AfterReset
  /\ [][(lastEv.kind = "reset"
          /\ metrics'.totalRequests # metrics.totalRequests)
        => (lastEv'.kind = "admit" /\ opCalls' = opCalls + 1
            /\ state' = "CLOSED")]_vars

\* reset() was called on an OPEN breaker during the cool-down.
C25_Witness ==
  /\ lastEv.kind = "reset" /\ lastEv.pre = "OPEN"
  /\ lastEv.at < lastEv.preNext
  /\ metrics.circuitOpened = 1 /\ state = "CLOSED"

(***************************************************************************)
(* C26: for every attempt index 0 .. maxRetries and every value of         *)
(* Math.random() the delay calculateDelay returns, jitter included, is an  *)
(* integer from 0 to maxDelay; so every sleep of a call ends at most       *)
(* maxDelay after it began.                                                *)
(***************************************************************************)
\* A sleep begins: the failure of an invocation has just been caught.
SleepBegins == rpc' = "sleeping" /\ fnLog' # fnLog

DelayInRange ==
  \A att \in 0 .. maxRetries, r \in 0 .. RandSteps - 1 :
    calculateDelay(att, r) \in 0 .. maxDelay

C26_DelayWithinMaxDelay ==
  /\ []DelayInRange
  /\ [][SleepBegins => wakeAt' - now' \in 0 .. maxDelay]_vars

\* A sleep has begun whose exponential delay is below maxDelay and whose
\* jitter took it above: the delay is maxDelay.
C26_Witness ==
  /\ rpc = "sleeping" /\ wakeAt - now = maxDelay
  /\ baseDelay * Pow(backoffMultiplier, attempt) < maxDelay
  /\ \E r \in 1 .. RandSteps - 1 : calculateDelayNoCap(attempt, r) > maxDelay

(***************************************************************************)
(* C27: the delay slept after the failure of attempt index i is the        *)
(* exponential value capped first, min(baseDelay * backoffMultiplier^i,    *)
(* maxDelay), plus jitter proportional to that capped value, floored.      *)
(***************************************************************************)
Floor(num, den) == num \div den

Min(a, b) == IF a < b THEN a ELSE b

\* floor(delay + delay * jitter * r), delay the capped exponential value.
CappedThenJittered(i, r) ==
  LET delay == Min(baseDelay * Pow(backoffMultiplier, i), maxDelay)
  IN  Floor(delay * 100 * RandSteps + delay * jitterPct * r, 100 * RandSteps)

\* floor(min(e + e * jitter * r, maxDelay)), e the exponential value.
JitteredThenCapped(i, r) ==
  LET e == baseDelay * Pow(backoffMultiplier, i)
  IN  Floor(Min(e * 100 * RandSteps + e * jitterPct * r,
                maxDelay * 100 * RandSteps),
            100 * RandSteps)


C27_CappedThenJittered ==
  [][SleepBegins
      => \E r \in 0 .. RandSteps - 1 :
           wakeAt' - now' = CappedThenJittered(attempt', r)]_vars

(***************************************************************************)
(* C27, amended: the delay slept after the failure of attempt index i is   *)
(* floor(min(e + e * jitterFraction * r, maxDelay)) with                   *)
(* e = baseDelay * backoffMultiplier^i and r in [0,1): the jitter is       *)
(* proportional to the uncapped exponential value and the cap is applied   *)
(* after the jitter has been added.                                        *)
(***************************************************************************)
C27_JitteredThenCapped ==
  [][SleepBegins
      => /\ attempt' = Len(fnLog') - 1
         /\ \E r \in 0 .. RandSteps - 1 :
              wakeAt' - now' = JitteredThenCapped(attempt', r)]_vars

\* A sleep where the two orders differ: the jittered value is above
\* maxDelay, so the delay is maxDelay, less than any capped value with
\* this jitter added.
C27_Witness ==
  /\ rpc = "sleeping" /\ wakeAt - now = maxDelay
  /\ \E r \in 1 .. RandSteps - 1 :
       /\ JitteredThenCapped(attempt, r) = maxDelay
       /\ CappedThenJittered(attempt, r) > maxDelay

(***************************************************************************)
(* C28: the attempts of one RetryManager.execute call are strictly         *)
(* sequential.  Every invocation of fn but the last has failed, at most    *)
(* one is pending, and a further invocation is made only by a call that    *)
(* is asleep after the failure of the previous one, once the sleep         *)
(* computed for that attempt index has elapsed.  One sleep separates       *)
(* consecutive attempts, and no sleep follows the final failed attempt.    *)
(***************************************************************************)
Failed_(i) == fnLog[i].kind \in {"OpError", "CircuitOpen"}

Sequential ==
  /\ \A i \in DOMAIN fnLog : i < Len(fnLog) => Failed_(i)
  /\ rpc = "calling"
       <=> (fnLog # <<>> /\ fnLog[Len(fnLog)].kind = "pending")
  /\ rpc = "sleeping"
       => Failed_(Len(fnLog)) /\ sleeps = Len(fnLog)
          /\ attempt = Len(fnLog) - 1
  /\ rpc \in {"calling", "returned", "thrown"} => sleeps = Len(fnLog) - 1
  /\ rpc = "thrown" => Failed_(Len(fnLog))

C28_AttemptsSequential ==
  /\ []Sequential
  /\ [][(fnLog # <<>> /\ Len(fnLog') = Len(fnLog) + 1)
        => (rpc = "sleeping" /\ now >= wakeAt /\ now' = now
            /\ sleeps' = (IF rpc' = "sleeping" THEN sleeps + 1 ELSE sleeps)
            /\ attempt' = attempt + 1)]_vars
  /\ [][SleepBegins
        => (fnLog'[Len(fnLog')].kind \in {"OpError", "CircuitOpen"}
            /\ \E r \in 0 .. RandSteps - 1 :
                 wakeAt' = now' + calculateDelay(Len(fnLog') - 1, r))]_vars

\* A call has been rejected after three attempts and two sleeps.
C28_Witness ==
  /\ rpc = "thrown" /\ maxRetries = 2
  /\ Len(fnLog) = 3 /\ sleeps = 2 /\ now >= wakeAt /\ wakeAt > 0

(***************************************************************************)
(* C29: when every invocation of fn settles and every sleep ends, a        *)
(* RetryManager.execute call ends, with a result or a rejection, and fn    *)
(* is invoked at most maxRetries + 1 times in it, whether the failures     *)
(* are errors of the operation or rejections by an open breaker.           *)
(***************************************************************************)
AtMostMaxRetriesPlusOne == Len(fnLog) <= maxRetries + 1

C29_RetryTerminates ==
  /\ []AtMostMaxRetriesPlusOne
  /\ (rpc \in {"calling", "sleeping"}) ~> (rpc \in {"returned", "thrown"})

\* A call has ended after maxRetries + 1 invocations that failed with
\* errors of both kinds.
C29_Witness ==
  /\ rpc = "thrown" /\ Len(fnLog) = maxRetries + 1
  /\ \E i, j \in DOMAIN fnLog :
       fnLog[i].kind = "OpError" /\ fnLog[j].kind = "CircuitOpen"

(***************************************************************************)
(* C30: with audit logging enabled, a decryptToken call appends exactly     *)
(* one audit entry, and its action tells the outcome: "decrypt_success"     *)
(* exactly when a token (not null) is returned, "decrypt_failed" for a      *)
(* cryptographic failure (garbage ciphertext, wrong key) and for a tenant   *)
(* mismatch, "decrypt_error" when the decrypted text is no JSON.            *)
(***************************************************************************)
\* The last call was decryptToken on a vault that logs.
DecryptLogged ==
  lastOp.op = "decryptToken" /\ config[lastOp.by].enableAuditLogging

\* ... of a token whose ciphertext is garbage, or by a vault with another
\* key than the issuer's.
CryptographicFailure ==
  \/ lastOp.probe = "corrupted"
  \/ /\ lastOp.probe = "intact"
     /\ config[origin.by].encryptionKey # config[lastOp.by].encryptionKey

\* The call appended one entry, and "decrypt_success" goes with a token
\* returned.
OneEntrySuccessIffToken ==
  DecryptLogged
    => /\ auditLogs[lastOp.by] # <<>>
       /\ DecryptEntry.timestamp = toISOString(lastOp.at)
       /\ DecryptEntry.action
            \in {"decrypt_success", "decrypt_failed", "decrypt_error"}
       /\ DecryptEntry.action = "decrypt_success" <=> lastOp.result # JNull
       /\ DecryptEntry.action = "decrypt_error"
            => DecryptEntry.details[1] = "Token decryption error: "

AppendsOne ==
  \A v \in Vaults :
    (lastOp'.op = "decryptToken" /\ lastOp'.by = v
       /\ config[v].enableAuditLogging /\ auditLogs' # auditLogs)
      => Len(auditLogs'[v]) = Len(auditLogs[v]) + 1

C30_ActionTellsOutcome ==
  /\ [](OneEntrySuccessIffToken
        /\ (DecryptLogged /\ (CryptographicFailure \/ OfOtherTenant)
              => DecryptEntry.action = "decrypt_failed"))
  /\ [][AppendsOne]_vars

(***************************************************************************)
(* C21: new ShoraSDK(config) has as its base URL config.baseUrl if one is  *)
(* provided, else SHORA_API_BASE_URL if it is set, else                    *)
(* https://api.shora.cloud when the environment is production or unset;    *)
(* for sandbox or staging with neither of the two, the constructor throws. *)
(***************************************************************************)
\* The base URL the claim gives for the last construction; "" for an error.
Documented ==
  IF Truthy(sdk.given.baseUrl) THEN sdk.given.baseUrl.s
  ELSE IF Truthy(sdk.envBase) THEN sdk.envBase.s
  ELSE IF sdk.given.environment.t = "undefined"
            \/ sdk.given.environment.s = "production"
    THEN "https://api.shora.cloud"
  ELSE ""

ResolvedAsDocumented ==
  IF Documented = ""
    THEN sdk.thrown /\ sdk.message = RequiresExplicit
    ELSE /\ ~sdk.thrown
         /\ sdk.baseUrl = StrProp(Documented)
         /\ ~sdk.httpClient => sdk.baseURL = StrProp(Documented)

C21_BaseUrlResolution == sdk.built => ResolvedAsDocumented

\* The same for a config that has no baseUrl property, or a non-empty one.
C21_ResolutionWithoutFalsyBaseUrl ==
  (sdk.built /\ (sdk.given.baseUrl.own => Truthy(sdk.given.baseUrl)))
    => ResolvedAsDocumented

(***************************************************************************)
(* C22: checkRateLimit enforces the configured limit.  Of the calls made   *)
(* for one identifier within one window of windowMs at most max are        *)
(* reported allowed: a call that follows max allowed calls for its         *)
(* identifier made less than windowMs before it is reported not allowed.   *)
(***************************************************************************)
\* The calls before call k, for the same identifier, that were reported
\* allowed and lie less than windowMs before it.
AllowedInWindowBefore(k) ==
  {j \in 1 .. k - 1 :
     /\ checks[j].identifier = checks[k].identifier
     /\ checks[j].allowed
     /\ checks[k].at - checks[j].at < rateLimitConfig.windowMs}

C22_RateLimitEnforced ==
  \A k \in DOMAIN checks :
    Cardinality(AllowedInWindowBefore(k)) >= rateLimitConfig.max
      => ~checks[k].allowed

\* What every call returns, whatever was called before.
C22_EveryCallAllowed ==
  \A k \in DOMAIN checks :
    /\ checks[k].allowed
    /\ checks[k].remaining = rateLimitConfig.max - 1
    /\ checks[k].resetTime = checks[k].at + rateLimitConfig.windowMs
(***************************************************************************)
(* C34 (as stated): the success of a call that was not admitted in         *)
(* HALF_OPEN, completing while the breaker is HALF_OPEN, leaves the        *)
(* half-open success count and the state as they were.                     *)
(***************************************************************************)
SuccessCompletes ==
  metrics'.successfulRequests = metrics.successfulRequests + 1

C34_OnlyHalfOpenAdmissionsCount ==
  [][(SuccessCompletes /\ lastAdmission' # "HALF_OPEN")
       => (successCount' = successCount /\ state' = state)]_vars

(***************************************************************************)
(* C34 (amended): every success that completes while the breaker is        *)
(* HALF_OPEN advances the half-open success count, in whatever state the   *)
(* call was admitted, and the third closes the breaker; a success that     *)
(* completes in another state leaves count and state alone.                *)
(***************************************************************************)
C34_CompletionInHalfOpenCounts ==
  [][SuccessCompletes
       => IF state = "HALF_OPEN"
            THEN IF successCount + 1 >= HalfOpenSuccesses
                   THEN state' = "CLOSED" /\ successCount' = 0
                   ELSE state' = state /\ successCount' = successCount + 1
            ELSE state' = state /\ successCount' = successCount]_vars

\* A call admitted while CLOSED has succeeded while the breaker was
\* HALF_OPEN and has been counted.
C34_Witness ==
  /\ lastEv.kind = "success" /\ lastEv.pre = "HALF_OPEN"
  /\ lastAdmission = "CLOSED"
  /\ successCount = lastEv.preSucc + 1

(***************************************************************************)
(* C35: while the breaker stays OPEN its nextAttempt does not change.      *)
(***************************************************************************)
C35_NextAttemptFixedWhileOpen ==
  [][(state = "OPEN" /\ state' = "OPEN") => nextAttempt' = nextAttempt]_vars

\* What holds: while the breaker stays OPEN only the failure of a call in
\* flight moves nextAttempt, to the time of that failure plus resetTimeout.
C35_OnlyFailuresMoveNextAttempt ==
  [][(state = "OPEN" /\ state' = "OPEN" /\ nextAttempt' # nextAttempt)
       => (lastEv'.kind = "failure" /\ nextAttempt' = now + resetTimeout)]_vars

(***************************************************************************)
(* C32: every step of a vault in use (logging operations, getAuditLogs     *)
(* with or without a filter, setRequestContext, the clock) leaves the log  *)
(* it had as a prefix of the log it has, entry for entry unchanged, and    *)
(* the entries added carry the time of the step: the log is in the order   *)
(* in which the logging calls completed.                                   *)
(***************************************************************************)
IsPrefix(old, new) ==
  /\ Len(old) <= Len(new)
  /\ SubSeq(new, 1, Len(old)) = old

AppendOnly ==
  \A v \in Vaults :
    /\ IsPrefix(auditLogs[v], auditLogs'[v])
    /\ \A i \in Len(auditLogs[v]) + 1 .. Len(auditLogs'[v]) :
         auditLogs'[v][i].timestamp = toISOString(now)

InCompletionOrder ==
  \A v \in Vaults : \A i, j \in DOMAIN auditLogs[v] :
    i <= j => getTime(auditLogs[v][i].timestamp)
                <= getTime(auditLogs[v][j].timestamp)

C32_AuditLogAppendOnly ==
  []InCompletionOrder /\ [][AppendOnly]_vars

\* The log holds entries of different times and request contexts, and
\* getAuditLogs has just returned them in another order than the log's.
C32_Witness ==
  /\ lastOp.op = "getAuditLogs"
  /\ Len(auditLogs["A"]) >= 2
  /\ lastOp.result.entries # auditLogs["A"]
  /\ Len(lastOp.result.entries) = Len(auditLogs["A"])
  /\ auditLogs["A"][1].ipAddress # auditLogs["A"][2].ipAddress
  /\ getTime(auditLogs["A"][1].timestamp) < getTime(auditLogs["A"][2].timestamp)

(***************************************************************************)
(* C31: an encryptToken call leaves the audit log, the configuration and   *)
(* the request context of every vault as they were and starts no POST to   *)
(* the audit endpoint, with audit logging and an endpoint configured or    *)
(* not.                                                                    *)
(***************************************************************************)
EncryptTokenReturns == lastOp'.op = "encryptToken" /\ token' # token

C31_EncryptTokenHasNoSideEffect ==
  [][EncryptTokenReturns
       => /\ auditLogs' = auditLogs
          /\ config' = config
          /\ requestContext' = requestContext
          /\ sink' = sink]_vars

\* encryptToken has returned a token on a vault that logs to an endpoint
\* and has a request context.
C31_Witness ==
  /\ lastOp.op = "encryptToken" /\ origin.op = "encryptToken"
  /\ token # NoToken
  /\ config[lastOp.by].enableAuditLogging
  /\ config[lastOp.by].auditLogEndpoint # ""
  /\ requestContext[lastOp.by].set

(***************************************************************************)
(* C37: every validatePaymentToken call made on a payment token within its *)
(* lifetime returns {valid: true} with the data of the token as issued,    *)
(* however many validations and other operations went before, and a        *)
(* validation leaves the token and the vault's configuration and request   *)
(* context as they were.                                                   *)
(***************************************************************************)
ValidatedInLifetime ==
  /\ origin.op = "generateSecurePaymentToken"
  /\ lastOp.op = "validatePaymentToken"
  /\ lastOp.at <= origin.at + TokenLifetime

SameEveryTime ==
  ValidatedInLifetime
    => lastOp.result = [valid |-> TRUE, error |-> "",
                        data  |-> JSONparse(origin.s).val]

C37_ValidationKeepsNoState ==
  /\ []SameEveryTime
  /\ [][validations' # validations
          => /\ token' = token /\ origin' = origin
             /\ config' = config /\ requestContext' = requestContext]_vars

\* A token validated before is validated again at the last millisecond of
\* its lifetime, after the request context was set, and is valid.
C37_Witness ==
  /\ ValidatedInLifetime
  /\ validations >= 2
  /\ lastOp.at = origin.at + TokenLifetime
  /\ requestContext[lastOp.by].set
  /\ lastOp.result.valid

(***************************************************************************)
(* C38: an audit entry whose action records a failed operation             *)
(* (decrypt_failed, decrypt_error, payment_token_validation_failed) has    *)
(* the status "failed", and an entry with the status "success" records an  *)
(* operation that succeeded.                                               *)
(***************************************************************************)
FailureActions ==
  {"decrypt_failed", "decrypt_error", "payment_token_validation_failed"}

C38_FailuresHaveStatusFailed ==
  \A v \in Vaults : \A i \in DOMAIN auditLogs[v] :
    /\ auditLogs[v][i].action \in FailureActions
         => auditLogs[v][i].status = "failed"
    /\ auditLogs[v][i].status = "success"
         => auditLogs[v][i].action \notin FailureActions

\* What holds: no call of decryptToken or validatePaymentToken hands
\* logAudit a status, so every entry has the default status "success".
C38_EveryEntryHasDefaultStatus ==
  \A v \in Vaults : \A i \in DOMAIN auditLogs[v] :
    auditLogs[v][i].status = "success"

(***************************************************************************)
(* C33: in the colon-delimited variant decryptToken(encryptToken(s, d)) by *)
(* the same vault returns exactly s, for every token s and additional      *)
(* data d.                                                                 *)
(***************************************************************************)
DecryptedByIssuer ==
  /\ origin.op = "encryptToken"
  /\ lastOp.op = "decryptToken" /\ lastOp.by = origin.by

C33_ColonRoundTrip ==
  DecryptedByIssuer => lastOp.result = JStr(origin.s)

\* What holds: with no colon in the tenant the vault returns the token up
\* to its first colon, which is the token when the token holds none; with a
\* colon in the tenant it returns null.
C33_ReturnsFirstPart ==
  DecryptedByIssuer
    => IF \E k \in DOMAIN config[origin.by].tenantId :
            config[origin.by].tenantId[k] = COLON
         THEN lastOp.result = JNull
         ELSE lastOp.result = JStr(Split(origin.s)[1])

(***************************************************************************)
(* C36: a result the @cached decorator stored for a call on one            *)
(* PaymentService instance is never returned to a call made on another     *)
(* instance: a call answered from the cache is answered with the response  *)
(* of a POST that was made on the instance the call is made on.            *)
(***************************************************************************)
\* Call i was answered from the cache, with the response of call j's POST.
AnsweredFromCacheOf(i, j) ==
  /\ creates[i].status = "returned" /\ creates[i].post = 0
  /\ creates[j].post # 0 /\ creates[j].post = creates[i].response

C36_CachedResultStaysWithInstance ==
  \A i \in DOMAIN creates : \A j \in DOMAIN creates :
    AnsweredFromCacheOf(i, j) => madeOn[i] = madeOn[j]

\* What holds: the cache is keyed by the request alone, so a call answered
\* from the cache is answered with the response of an earlier POST of the
\* same request, whichever instance made it.
C36_CachedResultFollowsRequest ==
  \A i \in DOMAIN creates :
    (creates[i].status = "returned" /\ creates[i].post = 0)
      => \E j \in 1 .. i - 1 :
           /\ AnsweredFromCacheOf(i, j)
           /\ creates[j].request = creates[i].request

(***************************************************************************)
(* C39: after any sequence of set, get, delete, cleanup and clear on a     *)
(* MemoryCache, for any keys, the empty string among them, and with keys   *)
(* set again, size() never exceeds maxSize.                                *)
(***************************************************************************)
C39_SizeNeverExceedsMaxSize == size <= cache.maxSize

\* What holds: an operation takes size() beyond maxSize, or further beyond
\* it, only when the oldest key of a full cache is the empty string.
C39_GrowsOnlyPastEmptyKey ==
  [][(Len(cache'.cache) > Len(cache.cache) /\ size >= cache.maxSize)
       => cache.cache[1].key = ""]_vars

====
